---- MODULE Spec2Model ----
(***************************************************************************)
(* A model of the DRAM timing evaluator of dramsim3_evaluator.py:          *)
(* DRAMsim3Evaluator._check_timing_constraints, _run_simulation,           *)
(* _extract_metrics, _compute_score and evaluate_config, with the external *)
(* simulator and the filesystem as a nondeterministic environment.         *)
(***************************************************************************)
EXTENDS Integers, Sequences, FiniteSets, TLC

VARIABLES
    chk_params,     \* argument of a direct _check_timing_constraints call
    chk_base,       \* baseline_config['timing'] of that evaluator
    chk_out,        \* what the call returned, NoOut before it ran
    verbose,        \* self.verbose
    base_file,      \* the lines of the file at self.base_config
    baseline_config,\* self.baseline_config
    baseline_stats, \* self.baseline_stats: workload -> metrics
    files,          \* the config files the call wrote under output_dir: path -> lines
    pc,             \* where evaluate_config stands
    call,           \* the arguments of the current evaluate_config call
    idx,            \* position of the running loop in the workload list
    workload_scores,
    workload_metrics,
    result,         \* how the call ended: returned record or exception
    events,         \* what the call did so far: simulations and file writes
    stats_at_call,  \* baseline_stats as the current call found it
    pending,        \* a baseline run failed and none has completed since
    pending_at_call,\* pending as the current call found it
    ever_valid,     \* some call's parameters have passed the constraint gate
    deterministic,  \* the simulator is a function of (config, workload, cycles)
    sim_memo,       \* what such a simulator has answered so far
    baseline_cycles,\* workload -> the cycles argument its baseline entry was run with
    waiting,        \* evaluate_config is inside subprocess.run
    in_flight,      \* simulator subprocesses started and not yet ended
    unit_in,        \* the arguments of a direct call of one of the methods
    unit_out        \* what that call produced, NotRun before it ran

chk_vars == <<chk_params, chk_base, chk_out>>

sim_vars == <<deterministic, sim_memo>>

unit_vars == <<unit_in, unit_out>>

eval_vars == <<verbose, base_file, baseline_config, baseline_stats, files, pc,
               call, idx, workload_scores, workload_metrics, result, events,
               stats_at_call, pending, pending_at_call, ever_valid,
               deterministic, sim_memo, baseline_cycles, waiting, in_flight>>

flight_vars == <<waiting, in_flight>>

vars == <<chk_vars, eval_vars, unit_vars>>

(***************************************************************************)
(* str() and int() on the integers the model uses.                         *)
(***************************************************************************)
Digits == <<"0", "1", "2", "3", "4", "5", "6", "7", "8", "9">>

RECURSIVE NatStr(_)
NatStr(n) == IF n < 10 THEN Digits[n + 1]
             ELSE NatStr(n \div 10) \o Digits[(n % 10) + 1]

\* str(n) of a Python int
IntStr(n) == IF n < 0 THEN "-" \o NatStr(-n) ELSE NatStr(n)

\* the integers whose decimal strings int() is applied to in the model
IntDomain == -1 .. 120

\* int(s) of a string holding a decimal integer
ParseInt(s) == CHOOSE n \in IntDomain : IntStr(n) = s

(***************************************************************************)
(* Messages are kept as the sequence of pieces of the f-string that built  *)
(* them: the literal parts and the formatted values.                       *)
(***************************************************************************)
RECURSIVE Text(_)
Text(msg) == IF msg = <<>> THEN "" ELSE Head(msg) \o Text(Tail(msg))

(***************************************************************************)
(* The constraint validator.                                               *)
(***************************************************************************)
\* iteration order of the parameter dict (insertion order of get_params)
KeyOrder == <<"CL", "tRCD", "tRP", "tRAS", "tFAW">>

KeysOf(params) == SelectSeq(KeyOrder, LAMBDA k : k \in DOMAIN params)

\* the bounds table of _check_timing_constraints
bounds == [CL   |-> <<10, 30>>,
           tRCD |-> <<10, 30>>,
           tRP  |-> <<10, 30>>,
           tRAS |-> <<25, 80>>]

\* a faulty variant: the base configuration is not consulted
get_param_NoBase(params, timing, name) ==
    IF name \in DOMAIN params THEN params[name] ELSE 0

\* get_param: the value given, else the base configuration's, else 0
get_param(params, timing, name) ==
    IF name \in DOMAIN params THEN params[name]
    ELSE IF name \in DOMAIN timing THEN ParseInt(timing[name])
    ELSE 0

\* a faulty variant: the sum is left out of the message
OrderingMessage_NoSum(tRAS, tRCD, CL) ==
    <<"Constraint violated: tRAS (", IntStr(tRAS), ") must be >= ",
      "tRCD (", IntStr(tRCD), ") + CL (", IntStr(CL), ")">>

OrderingMessage(tRAS, tRCD, CL) ==
    <<"Constraint violated: tRAS (", IntStr(tRAS), ") must be >= ",
      "tRCD (", IntStr(tRCD), ") + CL (", IntStr(CL), ") = ",
      IntStr(tRCD + CL)>>

PositiveMessage(name, value) ==
    <<"Parameter ", name, " = ", IntStr(value), " must be positive integer">>

BoundsMessage(param, value, min_val, max_val) ==
    <<"Parameter ", param, " = ", IntStr(value), " out of ",
      "reasonable range [", IntStr(min_val), ", ", IntStr(max_val), "]">>

\* a faulty variant: CL is left out of the comparison
OrderingViolated_NoCL(tRAS, tRCD, CL) == tRAS < tRCD

\* Constraint 1: tRAS >= tRCD + CL
OrderingViolated(tRAS, tRCD, CL) == tRAS < (tRCD + CL)

\* a faulty variant: 0 passes
NotPositive_Negative(value) == value < 0

\* Constraint 2, one item (values are ints, so isinstance holds)
NotPositive(value) == value <= 0

\* a faulty variant: the lower bound is exclusive
OutOfBounds_Strict(param, value) ==
    /\ param \in DOMAIN bounds
    /\ ~(bounds[param][1] < value /\ value <= bounds[param][2])

\* Constraint 3, one item
OutOfBounds(param, value) ==
    /\ param \in DOMAIN bounds
    /\ ~(bounds[param][1] <= value /\ value <= bounds[param][2])

\* the items at which each loop's test fires, in iteration order
NonPositiveKeys(params) ==
    SelectSeq(KeysOf(params), LAMBDA k : NotPositive(params[k]))

OutOfBoundsKeys(params) ==
    SelectSeq(KeysOf(params), LAMBDA k : OutOfBounds(k, params[k]))

Ret(valid, reason) == [valid |-> valid, reason |-> reason]

\* a faulty variant: the gate lets every parameter set through
_check_timing_constraints_Pass(params, timing) == Ret(TRUE, <<>>)

_check_timing_constraints(params, timing) ==
    LET CL   == get_param(params, timing, "CL")
        tRCD == get_param(params, timing, "tRCD")
        tRP  == get_param(params, timing, "tRP")
        tRAS == get_param(params, timing, "tRAS")
        nonpos == NonPositiveKeys(params)
        oob    == OutOfBoundsKeys(params)
    IN  IF OrderingViolated(tRAS, tRCD, CL)
          THEN Ret(FALSE, OrderingMessage(tRAS, tRCD, CL))
        ELSE IF nonpos # <<>>
          THEN Ret(FALSE, PositiveMessage(nonpos[1], params[nonpos[1]]))
        ELSE IF oob # <<>>
          THEN Ret(FALSE, BoundsMessage(oob[1], params[oob[1]],
                                        bounds[oob[1]][1], bounds[oob[1]][2]))
        ELSE Ret(TRUE, <<>>)

(***************************************************************************)
(* Python floats, as far as the scorer needs them: exact rationals n/d,    *)
(* the two infinities and NaN.  Rounding is not modelled.                  *)
(***************************************************************************)
RECURSIVE GCD(_, _)
GCD(a, b) == IF b = 0 THEN a ELSE GCD(b, a % b)

Abs(n) == IF n < 0 THEN -n ELSE n

Fin(n, d) ==
    LET g == GCD(Abs(n), d)
    IN  [k |-> "fin", n |-> n \div g, d |-> d \div g]

Num(n)   == Fin(n, 1)
PosInf   == [k |-> "inf", n |-> 1, d |-> 0]      \* float('inf')
NegInf   == [k |-> "inf", n |-> -1, d |-> 0]     \* -float('inf')
NaN      == [k |-> "nan", n |-> 0, d |-> 0]

IsNaN(a)    == a.k = "nan"
IsFinite(a) == a.k = "fin"
IsZero(a)   == a.k = "fin" /\ a.n = 0
Sign(a)     == IF a.n > 0 THEN 1 ELSE IF a.n < 0 THEN -1 ELSE 0

\* a > b; every comparison with NaN is false
Gt(a, b) ==
    IF IsNaN(a) \/ IsNaN(b) THEN FALSE
    ELSE IF a.k = "inf" THEN a.n = 1 /\ b # PosInf
    ELSE IF b.k = "inf" THEN b.n = -1
    ELSE a.n * b.d > b.n * a.d

\* max(a, b) of two arguments: the later one only if it compares greater
Max2(a, b) == IF Gt(b, a) THEN b ELSE a

Add(a, b) ==
    IF IsNaN(a) \/ IsNaN(b) THEN NaN
    ELSE IF a.k = "inf" /\ b.k = "inf" THEN (IF a.n = b.n THEN a ELSE NaN)
    ELSE IF a.k = "inf" THEN a
    ELSE IF b.k = "inf" THEN b
    ELSE Fin(a.n * b.d + b.n * a.d, a.d * b.d)

Mul(a, b) ==
    IF IsNaN(a) \/ IsNaN(b) THEN NaN
    ELSE IF a.k = "inf" \/ b.k = "inf"
      THEN (IF Sign(a) * Sign(b) = 0 THEN NaN
            ELSE IF Sign(a) * Sign(b) > 0 THEN PosInf ELSE NegInf)
    ELSE Fin(a.n * b.n, a.d * b.d)

\* a / b for b # 0 (b = 0 raises ZeroDivisionError: see DivRaises)
Div(a, b) ==
    IF IsNaN(a) \/ IsNaN(b) THEN NaN
    ELSE IF b.k = "inf" THEN (IF a.k = "inf" THEN NaN ELSE Num(0))
    ELSE IF a.k = "inf"
      THEN (IF Sign(a) * Sign(b) > 0 THEN PosInf ELSE NegInf)
    ELSE Fin(a.n * b.d * Sign(b), a.d * Abs(b.n))

DivRaises(a, b) == IsZero(b)

(***************************************************************************)
(* The metric extractor and the per-workload scorer.                       *)
(***************************************************************************)
\* a faulty variant: a missing field reads as 0
GetOr_Zero(d, key, default) == IF key \in DOMAIN d THEN d[key] ELSE Num(0)

\* dict.get(key, default) on a mapping kept as a function
GetOr(d, key, default) == IF key \in DOMAIN d THEN d[key] ELSE default

_extract_metrics(raw_stats) ==
    LET read_latency == GetOr(raw_stats, "average_read_latency", PosInf)
        bandwidth    == GetOr(raw_stats, "average_bandwidth", Num(0))
        power        == GetOr(raw_stats, "average_power", PosInf)
        total_energy == GetOr(raw_stats, "total_energy", PosInf)
        num_reads    == GetOr(raw_stats, "num_read_cmds", Num(0))
        num_writes   == GetOr(raw_stats, "num_write_cmds", Num(0))
        read_hits    == GetOr(raw_stats, "num_read_row_hits", Num(0))
        write_hits   == GetOr(raw_stats, "num_write_row_hits", Num(0))
        total_hits     == Add(read_hits, write_hits)
        total_accesses == Add(num_reads, num_writes)
    IN  IF "error" \in DOMAIN raw_stats THEN [error |-> raw_stats["error"]]
        ELSE
        [read_latency      |-> read_latency,
         bandwidth         |-> bandwidth,
         power             |-> power,
         total_energy      |-> total_energy,
         num_reads         |-> num_reads,
         num_writes        |-> num_writes,
         num_activations   |-> GetOr(raw_stats, "num_act_cmds", Num(0)),
         num_precharges    |-> GetOr(raw_stats, "num_pre_cmds", Num(0)),
         row_hit_rate      |-> IF Gt(total_accesses, Num(0))
                                 THEN Div(total_hits, total_accesses)
                                 ELSE Num(0),
         num_cycles        |-> GetOr(raw_stats, "num_cycles", Num(0)),
         energy_per_access |-> IF Gt(total_accesses, Num(0))
                                 THEN Div(total_energy, total_accesses)
                                 ELSE PosInf]

\* a faulty variant: energy weighs 0.1
EnergyWeight_Tenth == Fin(1, 10)

\* a faulty variant: a lower latency lowers the score
LatencyWeight_Negative == Fin(-2, 5)

\* the weights 0.4, 0.4, 0.2
LatencyWeight   == Fin(2, 5)
BandwidthWeight == Fin(2, 5)
EnergyWeight    == Fin(1, 5)

_compute_score(metrics, baseline_metrics) ==
    LET latency_score   == Div(baseline_metrics.read_latency,
                               Max2(metrics.read_latency, Num(1)))
        bandwidth_score == Div(metrics.bandwidth,
                               Max2(baseline_metrics.bandwidth, Num(1)))
        energy_score    == Div(baseline_metrics.energy_per_access,
                               Max2(metrics.energy_per_access, Num(1)))
    IN  IF "error" \in DOMAIN metrics THEN NegInf
        ELSE Add(Add(Mul(LatencyWeight, latency_score),
                     Mul(BandwidthWeight, bandwidth_score)),
                 Mul(EnergyWeight, energy_score))

(***************************************************************************)
(* The overall score: exp(sum(log(max(s, 0.01))) / len(scores)), the       *)
(* geometric mean of the floored scores.  A finite mean of r scores is     *)
(* kept exactly, as the r-th root of their product.                        *)
(***************************************************************************)
\* a faulty variant: the floor is 0.1
ScoreFloor_Tenth == Fin(1, 10)

ScoreFloor == Fin(1, 100)

RECURSIVE Product(_)
Product(xs) == IF xs = <<>> THEN Num(1) ELSE Mul(Head(xs), Product(Tail(xs)))

Root(r, x) == IF r = 1 THEN x ELSE [k |-> "root", n |-> x.n, d |-> x.d, r |-> r]

\* scores: the list of workload_scores.values(), not empty
Aggregate(scores) ==
    LET floored == [i \in DOMAIN scores |-> Max2(scores[i], ScoreFloor)]
    IN  IF \E i \in DOMAIN floored : IsNaN(floored[i]) THEN NaN
        ELSE IF \E i \in DOMAIN floored : floored[i] = PosInf THEN PosInf
        ELSE Root(Len(scores), Product(floored))

(***************************************************************************)
(* The config transformer.  A file is its sequence of lines; a stripped    *)
(* line is a comment or blank ("skip"), a [section] header, key=value (cut *)
(* at the first "=", both sides stripped) or something else ("junk").  A   *)
(* dict is the sequence of its (key, value) items in insertion order.      *)
(***************************************************************************)
Skip          == [t |-> "skip", a |-> "", b |-> ""]
Section(name) == [t |-> "section", a |-> name, b |-> ""]
KV(key, val)  == [t |-> "kv", a |-> key, b |-> val]

Has(d, key) == \E i \in DOMAIN d : d[i][1] = key
Get(d, key) == d[CHOOSE i \in DOMAIN d : d[i][1] = key][2]
Put(d, key, val) ==
    IF Has(d, key)
      THEN [i \in DOMAIN d |-> IF d[i][1] = key THEN <<key, val>> ELSE d[i]]
      ELSE Append(d, <<key, val>>)
Keys(d) == {d[i][1] : i \in DOMAIN d}
AsFunction(d) == [key \in Keys(d) |-> Get(d, key)]

\* current_section is None (<<>>) or a name (<<name>>); "" is falsy too
RECURSIVE ParseLines(_, _, _)
ParseLines(lines, config, current_section) ==
    IF lines = <<>> THEN config
    ELSE LET line == Head(lines)
         IN  IF line.t = "section"
               THEN ParseLines(Tail(lines), Put(config, line.a, <<>>), <<line.a>>)
             ELSE IF /\ line.t = "kv"
                     /\ current_section # <<>>
                     /\ current_section[1] # ""
               THEN ParseLines(Tail(lines),
                               Put(config, current_section[1],
                                   Put(Get(config, current_section[1]),
                                       line.a, line.b)),
                               current_section)
             ELSE ParseLines(Tail(lines), config, current_section)

_parse_config(lines) == ParseLines(lines, <<>>, <<>>)

RECURSIVE WriteItems(_)
WriteItems(params) ==
    IF params = <<>> THEN <<>>
    ELSE <<KV(Head(params)[1], Head(params)[2])>> \o WriteItems(Tail(params))

RECURSIVE _write_config(_)
_write_config(config) ==
    IF config = <<>> THEN <<>>
    ELSE <<Section(Head(config)[1])>> \o WriteItems(Head(config)[2])
            \o <<Skip>> \o _write_config(Tail(config))

(***************************************************************************)
(* The same two functions on text.  A text is the sequence of its lines, a *)
(* line the sequence of its characters without the newline.                *)
(***************************************************************************)
MaxLineLen == 3

Alphabet == {"[", "]", "=", "#", ";", " ", "a"}

CharSeqs == UNION {[1 .. n -> Alphabet] : n \in 0 .. MaxLineLen}

\* every string of at most n characters, paired with its characters
RECURSIVE Spellings(_)
Spellings(n) ==
    IF n = 0 THEN { <<"", <<>> >> }
    ELSE LET shorter == Spellings(n - 1)
         IN  shorter \cup
             { <<c \o p[1], <<c>> \o p[2]>> :
                 c \in Alphabet, p \in {q \in shorter : Len(q[2]) = n - 1} }

Spelled == Spellings(MaxLineLen)

\* the characters of a string
CharsOf == [s \in {p[1] : p \in Spelled} |->
              (CHOOSE p \in Spelled : p[1] = s)[2]]

\* a faulty variant: only leading whitespace is removed
RECURSIVE strip_Left(_)
strip_Left(cs) ==
    IF cs # <<>> /\ Head(cs) = " " THEN strip_Left(Tail(cs)) ELSE cs

\* str.strip()
RECURSIVE strip(_)
strip(cs) ==
    IF cs = <<>> THEN cs
    ELSE IF Head(cs) = " " THEN strip(Tail(cs))
    ELSE IF cs[Len(cs)] = " " THEN strip(SubSeq(cs, 1, Len(cs) - 1))
    ELSE cs

Junk == [t |-> "junk", a |-> "", b |-> ""]

\* what the loop body of _parse_config makes of one line
ReadLine(chars) ==
    LET line == strip(chars)
    IN  IF line = <<>> \/ line[1] = "#" \/ line[1] = ";" THEN Skip
        ELSE IF line[1] = "[" /\ line[Len(line)] = "]"
          THEN Section(Text(SubSeq(line, 2, Len(line) - 1)))
        ELSE IF \E i \in DOMAIN line : line[i] = "="
          THEN LET cut == CHOOSE i \in DOMAIN line :
                              /\ line[i] = "="
                              /\ \A j \in 1 .. i - 1 : line[j] # "="
               IN  KV(Text(strip(SubSeq(line, 1, cut - 1))),
                      Text(strip(SubSeq(line, cut + 1, Len(line)))))
        ELSE Junk

ReadText(text) == [i \in DOMAIN text |-> ReadLine(text[i])]

\* what _write_config writes for one line
WriteLine(line) ==
    IF line.t = "section" THEN <<"[">> \o CharsOf[line.a] \o <<"]">>
    ELSE IF line.t = "kv"
      THEN CharsOf[line.a] \o <<" ", "=", " ">> \o CharsOf[line.b]
    ELSE <<>>

WriteText(lines) == [i \in DOMAIN lines |-> WriteLine(lines[i])]

\* the loop over timing_params.items() of _modify_timing_params
RECURSIVE UpdateTiming(_, _, _)
UpdateTiming(timing, keys, timing_params) ==
    IF keys = <<>> THEN timing
    ELSE UpdateTiming(IF Has(timing, Head(keys))
                        THEN Put(timing, Head(keys),
                                 IntStr(timing_params[Head(keys)]))
                        ELSE timing,
                      Tail(keys), timing_params)

\* a faulty variant: only the timing section reaches the candidate's config
_modify_timing_params_TimingOnly(base_config, timing_params) ==
    << <<"timing", UpdateTiming(Get(base_config, "timing"),
                                KeysOf(timing_params), timing_params)>> >>

_modify_timing_params(base_config, timing_params) ==
    Put(base_config, "timing",
        UpdateTiming(Get(base_config, "timing"), KeysOf(timing_params),
                     timing_params))

(***************************************************************************)
(* _modify_timing_params on objects.  A heap is the sequence of the        *)
(* objects allocated so far and an object's identity is its index; the     *)
(* values of a config are the identities of its sections' dicts.           *)
(***************************************************************************)
\* a faulty variant: the section dict itself, not a copy
dict_copy_Alias(heap, id) == [heap |-> heap, id |-> id]

\* params.copy()
dict_copy(heap, id) == [heap |-> Append(heap, heap[id]), id |-> Len(heap) + 1]

\* the loop over base_config.items()
RECURSIVE CopySections(_, _, _)
CopySections(heap, items, new_config) ==
    IF items = <<>> THEN heap
    ELSE LET copied == dict_copy(heap, Head(items)[2])
         IN  CopySections([copied.heap EXCEPT
                              ![new_config] = Put(@, Head(items)[1], copied.id)],
                          Tail(items), new_config)

\* new_config['timing'] raises KeyError in the first pass of the second loop
ModifyOnHeap(heap, base_config, timing_params) ==
    LET new_config == Len(heap) + 1
        copied     == CopySections(Append(heap, <<>>), heap[base_config],
                                   new_config)
        keys       == KeysOf(heap[timing_params])
    IN  IF keys = <<>>
          THEN [kind |-> "return", new_config |-> new_config, heap |-> copied]
        ELSE IF ~Has(copied[new_config], "timing")
          THEN [kind |-> "raise", error |-> "KeyError", heap |-> copied]
        ELSE LET timing == Get(copied[new_config], "timing")
             IN  [kind |-> "return", new_config |-> new_config,
                  heap |-> [copied EXCEPT
                              ![timing] = UpdateTiming(@, keys,
                                                       heap[timing_params])]]

\* the nested mapping a config object stands for
Deref(heap, config) ==
    [i \in DOMAIN heap[config] |->
        <<heap[config][i][1], heap[heap[config][i][2]]>>]

(***************************************************************************)
(* The environment: the simulator binary and the filesystem.               *)
(***************************************************************************)
\* what the simulator reads in a config file: per (section, key) the last
\* value assigned
RECURSIVE IniRead(_, _, _)
IniRead(lines, section, view) ==
    IF lines = <<>> THEN view
    ELSE LET line == Head(lines)
         IN  IF line.t = "section" THEN IniRead(Tail(lines), <<line.a>>, view)
             ELSE IF line.t = "kv" /\ section # <<>>
               THEN IniRead(Tail(lines), section,
                            Put(view, <<section[1], line.a>>, line.b))
             ELSE IniRead(Tail(lines), section, view)

SimInput(lines) == AsFunction(IniRead(lines, <<>>, <<>>))

\* channel "0" of the dramsim3.json files the simulator may leave
RawTypical ==
    [average_read_latency |-> Num(40), average_bandwidth |-> Num(12),
     average_power |-> Num(500), total_energy |-> Num(2000),
     num_read_cmds |-> Num(60), num_write_cmds |-> Num(40),
     num_act_cmds |-> Num(50), num_pre_cmds |-> Num(50),
     num_read_row_hits |-> Num(30), num_write_row_hits |-> Num(20),
     num_cycles |-> Num(1000)]

RawFaster ==
    [average_read_latency |-> Num(20), average_bandwidth |-> Num(24),
     average_power |-> Num(400), total_energy |-> Num(1000),
     num_read_cmds |-> Num(60), num_write_cmds |-> Num(40),
     num_act_cmds |-> Num(40), num_pre_cmds |-> Num(40),
     num_read_row_hits |-> Num(40), num_write_row_hits |-> Num(20),
     num_cycles |-> Num(1000)]

\* a run that issued no command
RawIdle ==
    [average_read_latency |-> Num(0), average_bandwidth |-> Num(0),
     average_power |-> Num(100), total_energy |-> Num(123),
     num_read_cmds |-> Num(0), num_write_cmds |-> Num(0),
     num_cycles |-> Num(1000)]

\* a run on a nearly idle trace: less than one unit of bandwidth
RawTrickle ==
    [average_read_latency |-> Num(40), average_bandwidth |-> Fin(1, 2),
     average_power |-> Num(100), total_energy |-> Num(400),
     num_read_cmds |-> Num(3), num_write_cmds |-> Num(1),
     num_act_cmds |-> Num(4), num_pre_cmds |-> Num(4),
     num_cycles |-> Num(1000)]

\* a channel object without any of the fields
RawEmpty == <<>>

\* a channel object that has a key "error"
RawError == [error |-> <<"no trace">>]

RawStats == {RawTypical, RawFaster, RawIdle}

\* how one _run_simulation call can go, as far as the environment decides
EnvOutcome(kind, raw) == [kind |-> kind, raw |-> raw]

EnvFailures ==
    {EnvOutcome(kind, RawEmpty) :
        kind \in {"mkdir_fails", "launch_fails", "timeout", "nonzero_exit",
                  "no_json", "bad_json"}}

EnvOutcomes == EnvFailures \cup {EnvOutcome("exit_0", raw) : raw \in RawStats}

\* os.path.isfile(workload) holds for these
TraceFiles == {"trace.txt"}

(***************************************************************************)
(* The simulation invoker.                                                 *)
(***************************************************************************)
Failure(error) == [error |-> error, raw_stats |-> RawEmpty]
Success(raw)   == [error |-> <<>>, raw_stats |-> raw]

HasError(r) == r.error # <<>>      \* "error" in result

\* os.makedirs(output_path, exist_ok=True) is outside the try block
RunRaises(env) == env.kind = "mkdir_fails"

\* no command is built for such a workload
UnknownWorkload(workload) ==
    ~(workload \in {"random", "stream"} \/ workload \in TraceFiles)

\* the dict _run_simulation returns, when makedirs did not raise
_run_simulation(workload, env) ==
    IF UnknownWorkload(workload)
      THEN Failure(<<"Unknown workload type: ", workload>>)
    ELSE IF env.kind = "launch_fails"
      THEN Failure(<<"Unexpected error: ", "[Errno 2] No such file or directory">>)
    ELSE IF env.kind = "timeout"
      THEN Failure(<<"Simulation timeout (>5 minutes)">>)
    ELSE IF env.kind = "nonzero_exit"
      THEN Failure(<<"Simulation failed with return code ", IntStr(1)>>)
    ELSE IF env.kind = "no_json"
      THEN Failure(<<"Output JSON not found">>)
    ELSE IF env.kind = "bad_json"
      THEN Failure(<<"Unexpected error: ", "Expecting value: line 1 column 1 (char 0)">>)
    ELSE Success(env.raw)

\* the keys of that dict
ResultKeys(workload, env) ==
    IF UnknownWorkload(workload) THEN {"error"}
    ELSE IF env.kind \in {"launch_fails", "timeout", "bad_json"} THEN {"error"}
    ELSE IF env.kind = "nonzero_exit" THEN {"error", "stderr", "stdout"}
    ELSE IF env.kind = "no_json" THEN {"error", "output_path"}
    ELSE {"success", "raw_stats", "output_path"}

\* whether the subprocess was started
Launched(workload, env) ==
    ~RunRaises(env) /\ ~UnknownWorkload(workload)

\* one answer of the simulator: what it was given and how the run went
SimRun(lines, workload, cycles, env) ==
    [config |-> SimInput(lines), workload |-> workload, cycles |-> cycles,
     env |-> env]

\* a deterministic simulator answers the same input the same way
Repeats(lines, workload, cycles, env) ==
    deterministic /\ Launched(workload, env) =>
        \A m \in sim_memo :
            /\ m.config = SimInput(lines)
            /\ m.workload = workload
            /\ m.cycles = cycles
            => m.env = env

Remember(lines, workload, cycles, env) ==
    IF deterministic /\ Launched(workload, env)
      THEN sim_memo \cup {SimRun(lines, workload, cycles, env)}
      ELSE sim_memo

(***************************************************************************)
(* The evaluation orchestrator: evaluate_config, one action per step.      *)
(***************************************************************************)
EmptyMap == <<>>        \* {}

NoResult == [kind |-> "none"]
Raised(exc) == [kind |-> "raise", exc |-> exc]
Returned(score, valid, error_msg, timing_params, scores, metrics) ==
    [kind |-> "return", score |-> score, valid |-> valid,
     error_msg |-> error_msg, timing_params |-> timing_params,
     workload_scores |-> scores, workload_metrics |-> metrics]

\* config_<abs(hash(str(timing_params)))>.ini under output_dir
ConfigPath(timing_params) == <<"config_", timing_params, ".ini">>

\* how a step ended: "ok", "error" (a failure dict came back) or "raise"
SimEvent(phase, workload, env) ==
    [op |-> "simulate", phase |-> phase, workload |-> workload,
     launched |-> Launched(workload, env),
     stats_empty |-> baseline_stats = EmptyMap,
     outcome |-> IF RunRaises(env) THEN "raise"
                 ELSE IF HasError(_run_simulation(workload, env)) THEN "error"
                 ELSE "ok",
     error |-> IF RunRaises(env) THEN <<>>
               ELSE _run_simulation(workload, env).error]

WriteEvent(write_ok) ==
    [op |-> "write_config", phase |-> "write", workload |-> "",
     launched |-> FALSE, stats_empty |-> baseline_stats = EmptyMap,
     outcome |-> IF write_ok THEN "ok" ELSE "raise", error |-> <<>>]

\* a faulty variant: the baseline is computed on every call
NeedsBaseline_Always(stats) == TRUE

\* `if not self.baseline_stats`
NeedsBaseline(stats) == stats = EmptyMap

\* the four return statements of evaluate_config
InvalidConfig(error_msg, timing_params) ==
    Returned(NegInf, FALSE, error_msg, timing_params, EmptyMap, EmptyMap)

BaselineFailed(error, timing_params) ==
    Returned(NegInf, FALSE, <<"Baseline simulation failed: ">> \o error,
             timing_params, EmptyMap, EmptyMap)

CandidateFailed(error, timing_params, scores, metrics) ==
    Returned(NegInf, FALSE, <<"Simulation failed: ">> \o error,
             timing_params, scores, metrics)

ValidResult(overall_score, timing_params, scores, metrics) ==
    Returned(overall_score, TRUE, <<>>, timing_params, scores, metrics)

\* the entry of evaluate_config: the constraint gate, then `if not
\* self.baseline_stats` and the first loop test
Call(timing_params, workloads, cycles) ==
    /\ pc = "idle"
    /\ call' = [timing_params |-> timing_params, workloads |-> workloads,
                cycles |-> cycles]
    /\ idx' = 1
    /\ workload_scores' = EmptyMap
    /\ workload_metrics' = EmptyMap
    /\ events' = <<>>
    /\ files' = EmptyMap
    /\ stats_at_call' = baseline_stats
    /\ pending_at_call' = pending
    /\ LET chk == _check_timing_constraints(timing_params,
                      AsFunction(Get(baseline_config, "timing")))
       IN  IF ~chk.valid
             THEN /\ result' = InvalidConfig(chk.reason, timing_params)
                  /\ pc' = "done"
                  /\ UNCHANGED ever_valid
             ELSE /\ result' = NoResult
                  /\ pc' = IF NeedsBaseline(baseline_stats) /\ workloads # <<>>
                             THEN "baseline" ELSE "write"
                  /\ ever_valid' = TRUE
    /\ UNCHANGED <<verbose, base_file, baseline_config, baseline_cycles,
                   flight_vars, baseline_stats, pending,
                   chk_vars, sim_vars, unit_vars>>

\* the values printed per workload when verbose are read from the record,
\* which has no such field when it carries an error
FieldMissing(metrics) == verbose /\ "error" \in DOMAIN metrics

\* _compute_score reads the baseline record's fields unless the candidate's
\* record carries an error
ScoreRaises(metrics, baseline_metrics) ==
    "error" \notin DOMAIN metrics /\ "error" \in DOMAIN baseline_metrics

\* the cycles argument a baseline entry was measured with
MeasuredWith(workload, cycles) ==
    [w \in DOMAIN baseline_cycles \cup {workload} |->
        IF w = workload THEN cycles ELSE baseline_cycles[w]]

\* one round of the baseline loop: _run_simulation on the base config
BaselineStep(env) ==
    /\ pc = "baseline"
    /\ Repeats(base_file, call.workloads[idx], call.cycles, env)
    /\ sim_memo' = Remember(base_file, call.workloads[idx], call.cycles, env)
    /\ LET workload == call.workloads[idx]
           r == _run_simulation(workload, env)
       IN  /\ events' = Append(events, SimEvent("baseline", workload, env))
           /\ IF RunRaises(env)
                THEN /\ result' = Raised("OSError")
                     /\ pc' = "done"
                     /\ UNCHANGED <<baseline_stats, baseline_cycles, idx, pending>>
              ELSE IF HasError(r)
                THEN /\ result' = BaselineFailed(r.error, call.timing_params)
                     /\ pc' = "done"
                     /\ pending' = TRUE
                     /\ UNCHANGED <<baseline_stats, baseline_cycles, idx>>
              ELSE IF FieldMissing(_extract_metrics(r.raw_stats))
                THEN /\ baseline_stats' =
                          [w \in DOMAIN baseline_stats \cup {workload} |->
                              IF w = workload THEN _extract_metrics(r.raw_stats)
                              ELSE baseline_stats[w]]
                     /\ baseline_cycles' = MeasuredWith(workload, call.cycles)
                     /\ result' = Raised("KeyError")
                     /\ pc' = "done"
                     /\ UNCHANGED <<idx, pending>>
              ELSE /\ baseline_stats' =
                          [w \in DOMAIN baseline_stats \cup {workload} |->
                              IF w = workload THEN _extract_metrics(r.raw_stats)
                              ELSE baseline_stats[w]]
                   /\ baseline_cycles' = MeasuredWith(workload, call.cycles)
                   /\ idx' = IF idx < Len(call.workloads) THEN idx + 1 ELSE 1
                   /\ pc' = IF idx < Len(call.workloads) THEN "baseline" ELSE "write"
                   /\ pending' = IF idx < Len(call.workloads) THEN pending ELSE FALSE
                   /\ UNCHANGED result
    /\ waiting' = FALSE
    /\ in_flight' = IF waiting THEN in_flight - 1 ELSE in_flight
    /\ UNCHANGED <<verbose, base_file, baseline_config, files, call,
                   workload_scores, workload_metrics, stats_at_call,
                   pending_at_call, ever_valid, chk_vars, deterministic,
                   unit_vars>>

\* _modify_timing_params and _write_config; open() may fail
WriteConfig(write_ok) ==
    /\ pc = "write"
    /\ IF ~write_ok
         THEN /\ result' = Raised("OSError")
              /\ pc' = "done"
              /\ events' = Append(events, WriteEvent(FALSE))
              /\ UNCHANGED files
         ELSE /\ files' =
                    LET path == ConfigPath(call.timing_params)
                        text == _write_config(_modify_timing_params(
                                    baseline_config, call.timing_params))
                    IN  [f \in DOMAIN files \cup {path} |->
                            IF f = path THEN text ELSE files[f]]
              /\ events' = Append(events, WriteEvent(TRUE))
              /\ pc' = IF call.workloads # <<>> THEN "candidate" ELSE "aggregate"
              /\ UNCHANGED result
    /\ UNCHANGED <<verbose, base_file, baseline_config, baseline_cycles,
                   flight_vars, baseline_stats, call,
                   idx, workload_scores, workload_metrics, stats_at_call,
                   pending, pending_at_call, ever_valid, chk_vars, sim_vars,
                   unit_vars>>

\* the ratios printed per workload when verbose divide by baseline values
PrintRaises(metrics, baseline_metrics) ==
    /\ verbose
    /\ \/ DivRaises(metrics.read_latency, baseline_metrics.read_latency)
       \/ DivRaises(metrics.bandwidth, baseline_metrics.bandwidth)

\* one round of the evaluation loop: _run_simulation on the written config
CandidateStep(env) ==
    /\ pc = "candidate"
    /\ Repeats(files[ConfigPath(call.timing_params)], call.workloads[idx],
               call.cycles, env)
    /\ sim_memo' = Remember(files[ConfigPath(call.timing_params)],
                            call.workloads[idx], call.cycles, env)
    /\ LET workload == call.workloads[idx]
           r == _run_simulation(workload, env)
           metrics == _extract_metrics(r.raw_stats)
           score == _compute_score(metrics, baseline_stats[workload])
           scored == /\ ~RunRaises(env) /\ ~HasError(r)
                     /\ workload \in DOMAIN baseline_stats
                     /\ ~ScoreRaises(metrics, baseline_stats[workload])
       IN  /\ events' = Append(events, SimEvent("candidate", workload, env))
           /\ workload_scores' =
                 IF scored
                   THEN [w \in DOMAIN workload_scores \cup {workload} |->
                            IF w = workload THEN score ELSE workload_scores[w]]
                   ELSE workload_scores
           /\ workload_metrics' =
                 IF scored
                   THEN [w \in DOMAIN workload_metrics \cup {workload} |->
                            IF w = workload THEN metrics ELSE workload_metrics[w]]
                   ELSE workload_metrics
           /\ IF RunRaises(env)
                THEN /\ result' = Raised("OSError")
                     /\ pc' = "done"
                     /\ UNCHANGED idx
              ELSE IF HasError(r)
                THEN /\ result' = CandidateFailed(r.error, call.timing_params,
                                                  workload_scores, workload_metrics)
                     /\ pc' = "done"
                     /\ UNCHANGED idx
              ELSE IF workload \notin DOMAIN baseline_stats
                THEN /\ result' = Raised("KeyError")
                     /\ pc' = "done"
                     /\ UNCHANGED idx
              ELSE IF \/ ScoreRaises(metrics, baseline_stats[workload])
                      \/ FieldMissing(metrics)
                THEN /\ result' = Raised("KeyError")
                     /\ pc' = "done"
                     /\ UNCHANGED idx
              ELSE IF PrintRaises(metrics, baseline_stats[workload])
                THEN /\ result' = Raised("ZeroDivisionError")
                     /\ pc' = "done"
                     /\ UNCHANGED idx
              ELSE /\ idx' = IF idx < Len(call.workloads) THEN idx + 1 ELSE 1
                   /\ pc' = IF idx < Len(call.workloads) THEN "candidate"
                            ELSE "aggregate"
                   /\ UNCHANGED result
    /\ waiting' = FALSE
    /\ in_flight' = IF waiting THEN in_flight - 1 ELSE in_flight
    /\ UNCHANGED <<verbose, base_file, baseline_config, baseline_cycles, baseline_stats, files,
                   call, stats_at_call, pending, pending_at_call, ever_valid,
                   chk_vars, deterministic, unit_vars>>

\* list(d.values()) of a dict kept as a function
RECURSIVE Values(_)
Values(d) ==
    IF DOMAIN d = {} THEN <<>>
    ELSE LET key == CHOOSE w \in DOMAIN d : TRUE
         IN  <<d[key]>> \o Values([w \in DOMAIN d \ {key} |-> d[w]])

\* the overall score and the valid result
Finish ==
    /\ pc = "aggregate"
    /\ LET scores == Values(workload_scores)
       IN  result' = IF Len(scores) = 0
                       THEN Raised("ZeroDivisionError")
                       ELSE ValidResult(Aggregate(scores), call.timing_params,
                                        workload_scores, workload_metrics)
    /\ pc' = "done"
    /\ UNCHANGED <<verbose, base_file, baseline_config, baseline_cycles,
                   flight_vars, baseline_stats, files,
                   call, idx, workload_scores, workload_metrics, events,
                   stats_at_call, pending, pending_at_call, ever_valid, chk_vars,
                   sim_vars, unit_vars>>

\* the caller has the result (or the exception): the instance is idle again
NoCall == [timing_params |-> <<>>, workloads |-> <<>>, cycles |-> 0]

Return ==
    /\ pc = "done"
    /\ pc' = "idle"
    /\ call' = NoCall
    /\ idx' = 1
    /\ workload_scores' = EmptyMap
    /\ workload_metrics' = EmptyMap
    /\ result' = NoResult
    /\ events' = <<>>
    /\ files' = EmptyMap
    /\ stats_at_call' = baseline_stats
    /\ pending_at_call' = pending
    /\ UNCHANGED <<verbose, base_file, baseline_config, baseline_cycles,
                   flight_vars, baseline_stats, pending,
                   ever_valid, chk_vars, sim_vars, unit_vars>>

(***************************************************************************)
(* The evaluator's inputs.                                                 *)
(***************************************************************************)
\* a base configuration in the format of DDR4_8Gb_x8_3200.ini
BaseFileDDR4 ==
    << Skip,
       Section("dram_structure"), KV("protocol", "DDR4"), KV("bankgroups", "4"),
       Skip,
       Section("timing"), KV("tCK", "0.63"), KV("CL", "22"), KV("tRCD", "22"),
       KV("tRP", "22"), KV("tRAS", "52"), KV("tRFC", "560"),
       Skip,
       Section("power"), KV("VDD", "1.2") >>

BaseFiles == {BaseFileDDR4}

Params(cl, rcd, rp, ras) == [CL |-> cl, tRCD |-> rcd, tRP |-> rp, tRAS |-> ras]

BaselineParams == Params(22, 22, 22, 52)

ParamSets ==
    { BaselineParams,
      Params(20, 20, 20, 40),
      Params(20, 20, 20, 39),
      Params(31, 28, 28, 70),
      [CL |-> 20] }

Workloads == {"random", "stream", "nosuch"}

\* the longest workload list a call is given
MaxWorkloads == 2

WorkloadLists == UNION {[1 .. n -> Workloads] : n \in 0 .. MaxWorkloads}

CycleCounts == {100000}

InitEval ==
    /\ verbose \in BOOLEAN
    /\ base_file \in BaseFiles
    /\ baseline_config = _parse_config(base_file)
    /\ baseline_stats = EmptyMap
    /\ files = EmptyMap
    /\ pc = "idle"
    /\ call = NoCall
    /\ idx = 1
    /\ workload_scores = EmptyMap
    /\ workload_metrics = EmptyMap
    /\ result = NoResult
    /\ events = <<>>
    /\ stats_at_call = EmptyMap
    /\ pending = FALSE
    /\ pending_at_call = FALSE
    /\ ever_valid = FALSE
    /\ sim_memo = {}
    /\ baseline_cycles = EmptyMap
    /\ waiting = FALSE
    /\ in_flight = 0

NextEval ==
    \/ \E timing_params \in ParamSets, workloads \in WorkloadLists,
          cycles \in CycleCounts : Call(timing_params, workloads, cycles)
    \/ \E env \in EnvOutcomes : BaselineStep(env)
    \/ \E write_ok \in BOOLEAN : WriteConfig(write_ok)
    \/ \E env \in EnvOutcomes : CandidateStep(env)
    \/ Finish
    \/ Return

(***************************************************************************)
(* Direct calls of the validator: the inputs.                              *)
(***************************************************************************)
CheckVals ==
    [CL   |-> {-1, 0, 9, 10, 20, 30, 31},
     tRCD |-> {-1, 0, 9, 10, 20, 30, 31},
     tRP  |-> {0, 10, 20, 31},
     tRAS |-> {-1, 24, 25, 39, 40, 80, 81},
     tFAW |-> {0, 5}]

AllCheckVals == UNION {CheckVals[k] : k \in DOMAIN CheckVals}

\* every dict over a subset of the keys, full or partial
CheckParamSets ==
    UNION { {p \in [K -> AllCheckVals] : \A k \in K : p[k] \in CheckVals[k]} :
            K \in SUBSET DOMAIN CheckVals }

\* timing sections of base configurations: the shipped DDR4 values, one with
\* values outside the validator's bounds, one that lacks keys
CheckBaseTimings ==
    { [CL |-> "22", tRCD |-> "22", tRP |-> "22", tRAS |-> "52"],
      [CL |-> "9", tRCD |-> "31", tRP |-> "22", tRAS |-> "81"],
      [tRP |-> "22", tRAS |-> "40"] }

NoOut == [valid |-> FALSE, reason |-> <<"not called">>, called |-> FALSE]

InitCheck ==
    /\ chk_params \in CheckParamSets
    /\ chk_base \in CheckBaseTimings
    /\ chk_out = NoOut

CheckTimingConstraints ==
    /\ chk_out = NoOut
    /\ chk_out' = _check_timing_constraints(chk_params, chk_base)
                      @@ [called |-> TRUE]
    /\ UNCHANGED <<chk_params, chk_base>>

(***************************************************************************)
(* The specifications: Spec is an evaluator instance under any sequence of *)
(* evaluate_config calls; SpecCheck is the validator called directly.      *)
(***************************************************************************)
NotRun == [called |-> FALSE]

NoDirectCall == unit_in = NotRun /\ unit_out = NotRun

Init ==
    /\ InitEval
    /\ NoDirectCall
    /\ deterministic = FALSE
    /\ chk_params = BaselineParams
    /\ chk_base = AsFunction(Get(baseline_config, "timing"))
    /\ chk_out = NoOut

Next == NextEval

Spec == Init /\ [][Next]_vars

InitCheckOnly ==
    /\ InitCheck
    /\ InitEval
    /\ NoDirectCall
    /\ deterministic = FALSE
    /\ ~verbose

NextCheck == CheckTimingConstraints /\ UNCHANGED <<eval_vars, unit_vars>>

SpecCheck == InitCheckOnly /\ [][NextCheck]_vars

(***************************************************************************)
(* SpecCalib: the evaluator with a simulator that is a function of what it *)
(* is given, as test_evaluator supposes: the baseline parameters, one of   *)
(* them alone, or a set the validator rejects, on the built-in workloads.  *)
(***************************************************************************)
CalibParamSets == {BaselineParams, [CL |-> 22], Params(20, 20, 20, 39)}

CalibWorkloadLists ==
    UNION {[1 .. n -> {"random", "stream"}] : n \in 0 .. MaxWorkloads}

CalibOutcomes ==
    {EnvOutcome("mkdir_fails", RawEmpty), EnvOutcome("timeout", RawEmpty)}
      \cup {EnvOutcome("exit_0", raw) :
                raw \in {RawTypical, RawFaster, RawTrickle, RawIdle}}

InitCalib ==
    /\ InitEval
    /\ NoDirectCall
    /\ deterministic = TRUE
    /\ chk_params = BaselineParams
    /\ chk_base = AsFunction(Get(baseline_config, "timing"))
    /\ chk_out = NoOut

NextCalib ==
    \/ \E timing_params \in CalibParamSets, workloads \in CalibWorkloadLists,
          cycles \in CycleCounts : Call(timing_params, workloads, cycles)
    \/ \E env \in CalibOutcomes : BaselineStep(env)
    \/ \E write_ok \in BOOLEAN : WriteConfig(write_ok)
    \/ \E env \in CalibOutcomes : CandidateStep(env)
    \/ Finish
    \/ Return

SpecCalib == InitCalib /\ [][NextCalib]_vars

(***************************************************************************)
(* Direct calls of the methods that compute: one call per behaviour, on an *)
(* evaluator that is otherwise idle.                                       *)
(***************************************************************************)
IdleEvaluator ==
    /\ InitEval
    /\ ~verbose
    /\ deterministic = FALSE
    /\ chk_params = BaselineParams
    /\ chk_base = AsFunction(Get(baseline_config, "timing"))
    /\ chk_out = NoOut

(***************************************************************************)
(* SpecRun: _run_simulation called on a workload, with what the            *)
(* environment holds for it: whether the per-run directory can be made,    *)
(* how the subprocess goes, and what is at dramsim3.json in the directory  *)
(* afterwards, whoever wrote it.                                           *)
(***************************************************************************)
RunFacts ==
    [mkdir_ok : BOOLEAN,
     process  : {"launch_fails", "timeout", "exit_0", "exit_1"},
     json     : {"absent", "malformed", "no_channel_0", "channel_0"}]

\* stats.get("0", {})
ChannelStats(facts) == IF facts.json = "channel_0" THEN RawTypical ELSE RawEmpty

\* the code's path: makedirs, subprocess.run and its exceptions, returncode,
\* os.path.exists, json.load
EnvOf(facts) ==
    IF ~facts.mkdir_ok THEN EnvOutcome("mkdir_fails", RawEmpty)
    ELSE IF facts.process = "launch_fails" THEN EnvOutcome("launch_fails", RawEmpty)
    ELSE IF facts.process = "timeout" THEN EnvOutcome("timeout", RawEmpty)
    ELSE IF facts.process = "exit_1" THEN EnvOutcome("nonzero_exit", RawEmpty)
    ELSE IF facts.json = "absent" THEN EnvOutcome("no_json", RawEmpty)
    ELSE IF facts.json = "malformed" THEN EnvOutcome("bad_json", RawEmpty)
    ELSE EnvOutcome("exit_0", ChannelStats(facts))

RunWorkloads == Workloads \cup TraceFiles

InitRun ==
    /\ IdleEvaluator
    /\ unit_in \in [workload : RunWorkloads, facts : RunFacts]
    /\ unit_out = NotRun

RunSimulation ==
    /\ unit_out = NotRun
    /\ unit_out' =
          LET env == EnvOf(unit_in.facts)
          IN  IF RunRaises(env)
                THEN [called |-> TRUE, kind |-> "raise", exc |-> "OSError",
                      launched |-> FALSE]
                ELSE [called |-> TRUE, kind |-> "return",
                      result |-> _run_simulation(unit_in.workload, env),
                      keys |-> ResultKeys(unit_in.workload, env),
                      launched |-> Launched(unit_in.workload, env)]
    /\ UNCHANGED <<unit_in, chk_vars, eval_vars>>

NextRun == RunSimulation

SpecRun == InitRun /\ [][NextRun]_vars

(***************************************************************************)
(* SpecErrorRecord: the evaluator with a simulator whose output file may   *)
(* hold a channel object with a key "error".                               *)
(***************************************************************************)
ErrorRecordOutcomes ==
    {EnvOutcome("timeout", RawEmpty), EnvOutcome("exit_0", RawTypical),
     EnvOutcome("exit_0", RawError)}

InitErrorRecord ==
    /\ InitEval
    /\ NoDirectCall
    /\ deterministic = FALSE
    /\ chk_params = BaselineParams
    /\ chk_base = AsFunction(Get(baseline_config, "timing"))
    /\ chk_out = NoOut

NextErrorRecord ==
    \/ \E workloads \in CalibWorkloadLists, cycles \in CycleCounts :
          Call(BaselineParams, workloads, cycles)
    \/ \E env \in ErrorRecordOutcomes : BaselineStep(env)
    \/ WriteConfig(TRUE)
    \/ \E env \in ErrorRecordOutcomes : CandidateStep(env)
    \/ Finish
    \/ Return

SpecErrorRecord == InitErrorRecord /\ [][NextErrorRecord]_vars

(***************************************************************************)
(* SpecScore: _compute_score called on a metric record and a baseline      *)
(* record.  The scorer reads three fields of each; a record that carries   *)
(* "error" has no other field.                                             *)
(***************************************************************************)
ScoreValues == {Num(0), Fin(1, 2), Num(1), Num(3), PosInf}

ScoredFields == {"read_latency", "bandwidth", "energy_per_access"}

MetricRecords == [ScoredFields -> ScoreValues]

ErrorMetrics == [error |-> <<"Output JSON not found">>]

InitScore ==
    /\ IdleEvaluator
    /\ unit_in \in [metrics : MetricRecords \cup {ErrorMetrics},
                     baseline_metrics : MetricRecords]
    /\ unit_out = NotRun

ComputeScore ==
    /\ unit_out = NotRun
    /\ unit_out' = [called |-> TRUE,
                    score |-> _compute_score(unit_in.metrics,
                                             unit_in.baseline_metrics)]
    /\ UNCHANGED <<unit_in, chk_vars, eval_vars>>

NextScore == ComputeScore

SpecScore == InitScore /\ [][NextScore]_vars

(***************************************************************************)
(* SpecAggregate: the overall score of lines 419-422 computed on a list of *)
(* per-workload scores.                                                    *)
(***************************************************************************)
\* the longest list of scores
MaxScores == 2

AggregateValues ==
    {NegInf, Num(-1), Num(0), Fin(1, 10000), Fin(1, 100), Fin(1, 2), Num(1),
     Num(2), PosInf, NaN}

ScoreLists == UNION {[1 .. n -> AggregateValues] : n \in 1 .. MaxScores}

InitAggregate ==
    /\ IdleEvaluator
    /\ unit_in \in [scores : ScoreLists]
    /\ unit_out = NotRun

ComputeAggregate ==
    /\ unit_out = NotRun
    /\ unit_out' = [called |-> TRUE, score |-> Aggregate(unit_in.scores)]
    /\ UNCHANGED <<unit_in, chk_vars, eval_vars>>

NextAggregate == ComputeAggregate

SpecAggregate == InitAggregate /\ [][NextAggregate]_vars

(***************************************************************************)
(* SpecRoundTrip: a text is parsed, the result written, and the written    *)
(* text parsed again.  The text is any line of the alphabet between some   *)
(* lines before and some lines after it.                                   *)
(***************************************************************************)
LinesBefore ==
    { <<>>,
      << <<"[", "a", "]">> >>,
      << <<"[", "a", "]">>, <<"a", "=", "a">> >>,
      << <<"[", "]">> >> }

LinesAfter ==
    { <<>>,
      << <<"a", "=", "a">> >>,
      << <<"[", "a", "]">> >> }

Texts ==
    {before \o <<line>> \o after :
        before \in LinesBefore, line \in CharSeqs, after \in LinesAfter}

InitRoundTrip ==
    /\ IdleEvaluator
    /\ unit_in \in [text : Texts]
    /\ unit_out = NotRun

RoundTrip ==
    /\ unit_out = NotRun
    /\ unit_out' =
          LET config == _parse_config(ReadText(unit_in.text))
              written == WriteText(_write_config(config))
          IN  [called |-> TRUE, config |-> config, written |-> written,
               again |-> _parse_config(ReadText(written))]
    /\ UNCHANGED <<unit_in, chk_vars, eval_vars>>

NextRoundTrip == RoundTrip

SpecRoundTrip == InitRoundTrip /\ [][NextRoundTrip]_vars

(***************************************************************************)
(* SpecModify: _modify_timing_params called on a base config and a         *)
(* parameter mapping that live on a heap.                                  *)
(***************************************************************************)
SectionDicts ==
    { <<>>,
      << <<"CL", "22">> >>,
      << <<"tRCD", "22">> >>,
      << <<"CL", "22">>, <<"tRCD", "22">> >>,
      << <<"tRCD", "22">>, <<"CL", "22">> >> }

ModifyBases ==
    {<<>>}
      \cup {<< <<"timing", t>> >> : t \in SectionDicts}
      \cup {<< <<"system", o>> >> : o \in SectionDicts}
      \cup {<< <<"timing", t>>, <<"system", o>> >> :
                t \in SectionDicts, o \in SectionDicts}
      \cup {<< <<"system", o>>, <<"timing", t>> >> :
                t \in SectionDicts, o \in SectionDicts}

ModifyParamSets ==
    UNION {[K -> {7, 105}] : K \in SUBSET {"CL", "tRCD", "tFAW"}}

\* the section dicts, then the config, then the parameter mapping
HeapOf(config, params) ==
    [i \in DOMAIN config |-> config[i][2]]
      \o << [i \in DOMAIN config |-> <<config[i][1], i>>] >>
      \o << params >>

InitModify ==
    /\ IdleEvaluator
    /\ \E config \in ModifyBases, params \in ModifyParamSets :
          unit_in = [heap |-> HeapOf(config, params),
                     base_config |-> Len(config) + 1,
                     timing_params |-> Len(config) + 2]
    /\ unit_out = NotRun

ModifyTimingParams ==
    /\ unit_out = NotRun
    /\ unit_out' =
          [called |-> TRUE,
           outcome |-> ModifyOnHeap(unit_in.heap, unit_in.base_config,
                                    unit_in.timing_params)]
    /\ UNCHANGED <<unit_in, chk_vars, eval_vars>>

NextModify == ModifyTimingParams

SpecModify == InitModify /\ [][NextModify]_vars

(***************************************************************************)
(* SpecExtract: _extract_metrics called on a raw field mapping, any of its *)
(* fields absent, and the result scored against the metrics of a baseline  *)
(* mapping.                                                                *)
(***************************************************************************)
RawFieldValues ==
    [average_read_latency |-> {Fin(1, 2), Num(40)},
     average_bandwidth    |-> {Num(12)},
     total_energy         |-> {Num(0), Num(123)},
     num_read_cmds        |-> {Num(0), Num(2)},
     num_write_cmds       |-> {Num(0), Num(1)},
     num_read_row_hits    |-> {Num(0), Num(3)},
     num_write_row_hits   |-> {Num(0), Num(1)}]

AllRawValues == UNION {RawFieldValues[f] : f \in DOMAIN RawFieldValues}

\* every mapping over a subset of the fields
RawMappings ==
    UNION { {r \in [F -> AllRawValues] : \A f \in F : r[f] \in RawFieldValues[f]} :
            F \in SUBSET DOMAIN RawFieldValues }

BaselineMappings == {RawTypical, RawTrickle, RawIdle, RawEmpty}

InitExtract ==
    /\ IdleEvaluator
    /\ unit_in \in [raw_stats : RawMappings, baseline_raw : BaselineMappings]
    /\ unit_out = NotRun

ExtractAndScore ==
    /\ unit_out = NotRun
    /\ unit_out' =
          LET metrics == _extract_metrics(unit_in.raw_stats)
              baseline_metrics == _extract_metrics(unit_in.baseline_raw)
          IN  [called |-> TRUE, metrics |-> metrics,
               baseline_metrics |-> baseline_metrics,
               score |-> _compute_score(metrics, baseline_metrics)]
    /\ UNCHANGED <<unit_in, chk_vars, eval_vars>>

NextExtract == ExtractAndScore

SpecExtract == InitExtract /\ [][NextExtract]_vars

(***************************************************************************)
(* SpecOrder: evaluate_config with the call of subprocess.run and its      *)
(* return as two steps, so that what is in flight is a state.              *)
(***************************************************************************)
\* _run_simulation reaches subprocess.run: makedirs did not raise and a
\* command was built; evaluate_config blocks until the call is over
StartSimulation ==
    /\ pc \in {"baseline", "candidate"}
    /\ ~waiting
    /\ ~UnknownWorkload(call.workloads[idx])
    /\ waiting' = TRUE
    /\ in_flight' = in_flight + 1
    /\ UNCHANGED <<verbose, base_file, baseline_config, baseline_stats, files,
                   pc, call, idx, workload_scores, workload_metrics, result,
                   events, stats_at_call, pending, pending_at_call, ever_valid,
                   baseline_cycles, chk_vars, sim_vars, unit_vars>>

\* subprocess.run is over (or was never reached) and the round of the
\* baseline loop goes on
EndBaseline(env) ==
    /\ pc = "baseline"
    /\ waiting = Launched(call.workloads[idx], env)
    /\ BaselineStep(env)

\* the same for a round of the evaluation loop
EndCandidate(env) ==
    /\ pc = "candidate"
    /\ waiting = Launched(call.workloads[idx], env)
    /\ CandidateStep(env)

NextOrder ==
    \/ \E timing_params \in ParamSets, workloads \in WorkloadLists,
          cycles \in CycleCounts : Call(timing_params, workloads, cycles)
    \/ StartSimulation
    \/ \E env \in EnvOutcomes : EndBaseline(env)
    \/ \E write_ok \in BOOLEAN : WriteConfig(write_ok)
    \/ \E env \in EnvOutcomes : EndCandidate(env)
    \/ Finish
    \/ Return

SpecOrder == Init /\ [][NextOrder]_vars

(***************************************************************************)
(* SpecCycles: the evaluator under calls whose cycles argument varies.     *)
(***************************************************************************)
VaryingCycleCounts == {100000, 50000}

CyclesOutcomes ==
    {EnvOutcome("timeout", RawEmpty), EnvOutcome("exit_0", RawTypical),
     EnvOutcome("exit_0", RawFaster)}

NextCycles ==
    \/ \E workloads \in CalibWorkloadLists, cycles \in VaryingCycleCounts :
          Call(BaselineParams, workloads, cycles)
    \/ \E env \in CyclesOutcomes : BaselineStep(env)
    \/ WriteConfig(TRUE)
    \/ \E env \in CyclesOutcomes : CandidateStep(env)
    \/ Finish
    \/ Return

SpecCycles == InitErrorRecord /\ [][NextCycles]_vars

(***************************************************************************)
(* SpecFresh: _run_simulation called again and again with one run_id, so   *)
(* on one run directory, which is made with exist_ok and never cleared.    *)
(* The file dramsim3.json in it carries the number of the invocation whose *)
(* subprocess wrote it.                                                    *)
(***************************************************************************)
\* the invocations on one run directory
MaxRuns == 3

NoFile == [present |-> FALSE, writer |-> 0, raw |-> RawEmpty]

WrittenBy(n, raw) == [present |-> TRUE, writer |-> n, raw |-> raw]

FreshWorkloads == {"random", "stream"} \cup TraceFiles

\* the code's path after makedirs, with the file as it is after the
\* subprocess: returncode, os.path.exists, json.load, stats.get("0", {})
EnvAfter(process, file) ==
    IF process = "exit_0" /\ file.present
      THEN EnvOutcome("exit_0", file.raw)
      ELSE EnvOf([mkdir_ok |-> TRUE, process |-> process, json |-> "absent"])

InitFresh ==
    /\ IdleEvaluator
    /\ unit_in \in [workload : FreshWorkloads]
    /\ unit_out = [runs |-> 0, file |-> NoFile, result |-> NotRun, read_from |-> 0]

\* one invocation: the subprocess ends as process says and has or has not
\* written the file; nothing removes a file that is there
RunAgain(process, wrote, raw) ==
    /\ unit_out.runs < MaxRuns
    /\ LET n == unit_out.runs + 1
           file == IF wrote THEN WrittenBy(n, raw) ELSE unit_out.file
           r == _run_simulation(unit_in.workload, EnvAfter(process, file))
       IN  unit_out' = [runs |-> n, file |-> file, result |-> r,
                        read_from |-> IF HasError(r) THEN 0 ELSE file.writer]
    /\ UNCHANGED <<unit_in, chk_vars, eval_vars>>

NextFresh ==
    \E process \in {"timeout", "exit_0", "exit_1"}, wrote \in BOOLEAN,
       raw \in {RawTypical, RawFaster} : RunAgain(process, wrote, raw)

SpecFresh == InitFresh /\ [][NextFresh]_vars

(***************************************************************************)
(* SpecValidators: the validate methods of the two TimingConfiguration     *)
(* classes and the evaluator's gate, called on one assignment of the four  *)
(* parameters.                                                             *)
(***************************************************************************)
\* a faulty variant: both ends are exclusive
InRange_Open(min_val, value, max_val) == min_val < value /\ value < max_val

\* min_val <= value <= max_val
InRange(min_val, value, max_val) == min_val <= value /\ value <= max_val

\* the attributes in the order both classes list them
ConfigKeys == <<"CL", "tRCD", "tRP", "tRAS">>

\* the bounds dict of timing_config.py
config_bounds == [CL   |-> <<10, 30>>,
                  tRCD |-> <<10, 30>>,
                  tRP  |-> <<10, 30>>,
                  tRAS |-> <<25, 80>>]

\* TimingConfiguration.validate of timing_config.py: ordering, then
\* positivity of all four at once, then the bounds in dict order
timing_config_validate(cfg) ==
    LET outside == SelectSeq(ConfigKeys, LAMBDA k :
                       ~InRange(config_bounds[k][1], cfg[k], config_bounds[k][2]))
    IN  IF cfg.tRAS < (cfg.tRCD + cfg.CL)
          THEN Ret(FALSE,
                   <<"Constraint violated: tRAS (", IntStr(cfg.tRAS),
                     ") must be >= ", "tRCD (", IntStr(cfg.tRCD), ") + CL (",
                     IntStr(cfg.CL), ") = ", IntStr(cfg.tRCD + cfg.CL)>>)
        ELSE IF \E k \in DOMAIN config_bounds : cfg[k] <= 0
          THEN Ret(FALSE, <<"All timing parameters must be positive integers">>)
        ELSE IF outside # <<>>
          THEN Ret(FALSE,
                   <<outside[1], " = ", IntStr(cfg[outside[1]]),
                     " out of valid range ", "[",
                     IntStr(config_bounds[outside[1]][1]), ", ",
                     IntStr(config_bounds[outside[1]][2]), "]">>)
        ELSE Ret(TRUE, <<>>)

\* the message of one range test of initial_program.py
RangeMessage(name, min_val, max_val, value) ==
    <<name, " must be in range [", IntStr(min_val), ", ", IntStr(max_val),
      "], got ", IntStr(value)>>

\* TimingConfiguration.validate of openevolve_dram/initial_program.py:
\* positivity item by item, then ordering, then the four range tests
initial_program_validate(cfg) ==
    LET nonpos == SelectSeq(ConfigKeys, LAMBDA k : cfg[k] <= 0)
    IN  IF nonpos # <<>>
          THEN Ret(FALSE, <<nonpos[1], " must be a positive integer, got ",
                            IntStr(cfg[nonpos[1]])>>)
        ELSE IF cfg.tRAS < (cfg.tRCD + cfg.CL)
          THEN Ret(FALSE,
                   <<"Constraint violated: tRAS (", IntStr(cfg.tRAS),
                     ") must be >= tRCD (", IntStr(cfg.tRCD), ") + CL (",
                     IntStr(cfg.CL), ") = ", IntStr(cfg.tRCD + cfg.CL)>>)
        ELSE IF ~InRange(10, cfg.CL, 30)
          THEN Ret(FALSE, RangeMessage("CL", 10, 30, cfg.CL))
        ELSE IF ~InRange(10, cfg.tRCD, 30)
          THEN Ret(FALSE, RangeMessage("tRCD", 10, 30, cfg.tRCD))
        ELSE IF ~InRange(10, cfg.tRP, 30)
          THEN Ret(FALSE, RangeMessage("tRP", 10, 30, cfg.tRP))
        ELSE IF ~InRange(25, cfg.tRAS, 80)
          THEN Ret(FALSE, RangeMessage("tRAS", 25, 80, cfg.tRAS))
        ELSE Ret(TRUE, <<"Valid configuration">>)

\* integer assignments at, next to and away from every threshold
ValidatorVals ==
    [CL   |-> {-1, 0, 9, 10, 20, 30, 31},
     tRCD |-> {-1, 0, 9, 10, 20, 30, 31},
     tRP  |-> {0, 9, 10, 30, 31},
     tRAS |-> {-1, 24, 25, 39, 40, 80, 81}]

InitValidators ==
    /\ IdleEvaluator
    /\ unit_in \in [CL : ValidatorVals.CL, tRCD : ValidatorVals.tRCD,
                    tRP : ValidatorVals.tRP, tRAS : ValidatorVals.tRAS]
    /\ unit_out = NotRun

\* the three validators on the assignment; the gate gets get_params()
ValidateAll ==
    /\ unit_out = NotRun
    /\ unit_out' =
          [called |-> TRUE,
           config |-> timing_config_validate(unit_in),
           program |-> initial_program_validate(unit_in),
           gate |-> _check_timing_constraints(
                        unit_in, AsFunction(Get(baseline_config, "timing")))]
    /\ UNCHANGED <<unit_in, chk_vars, eval_vars>>

NextValidators == ValidateAll

SpecValidators == InitValidators /\ [][NextValidators]_vars

(***************************************************************************)
(* SpecAdapter: evaluate(program_path) of openevolve_dram/evaluator.py.    *)
(* It builds a new evaluator, loads the program, validates its             *)
(* configuration, calls evaluate_config with the default workloads and     *)
(* turns the outcome into an EvaluationResult.                             *)
(***************************************************************************)
\* what the facts of one call are: whether the evaluator can be built, how
\* loading and running the program's own code ends ("raise": an exception
\* derived from Exception, "exit": SystemExit, which is not), and the
\* parameters the program holds
AdapterConfigs ==
    {BaselineParams, Params(20, 20, 20, 40), Params(20, 20, 20, 39),
     Params(31, 28, 28, 70)}

AdapterFacts ==
    [construct_ok : BOOLEAN, load : {"ok", "raise", "exit"},
     cfg : AdapterConfigs]

\* workloads = None becomes ['random', 'stream']
DefaultWorkloads == <<"random", "stream">>

\* the metrics of the three failure returns
FailureResult(status) ==
    [called |-> TRUE, kind |-> "return", status |-> status,
     combined_score |-> Num(0), random_score |-> Num(0),
     stream_score |-> Num(0), overall_score |-> Num(0),
     latency_improvement |-> Num(0), bandwidth_improvement |-> Num(0),
     energy_efficiency |-> Num(0), constraint_valid |-> Num(0)]

\* an exception that `except Exception` does not catch leaves evaluate
Propagates(exc) == [called |-> TRUE, kind |-> "raise", exc |-> exc]

\* evaluate is inside evaluator.evaluate_config
Evaluating == [called |-> FALSE, kind |-> "evaluating"]

\* the evaluator is built, the program loaded and its validate called
AdapterEnter ==
    /\ unit_out = NotRun
    /\ unit_out' =
          IF ~unit_in.construct_ok THEN FailureResult("error")
          ELSE IF unit_in.load = "exit" THEN Propagates("SystemExit")
          ELSE IF unit_in.load = "raise" THEN FailureResult("error")
          ELSE IF ~initial_program_validate(unit_in.cfg).valid
            THEN FailureResult("invalid")
          ELSE Evaluating
    /\ UNCHANGED <<unit_in, chk_vars, eval_vars>>

\* evaluator.evaluate_config(timing_params_dict)
AdapterCall ==
    /\ unit_out = Evaluating
    /\ \E cycles \in CycleCounts : Call(unit_in.cfg, DefaultWorkloads, cycles)

\* the lookups and divisions of the feature dimensions raise: a workload or
\* a field is missing, or a divisor is zero
RatiosRaise(res, stats) ==
    \/ \E w \in {"random", "stream"} :
          \/ w \notin DOMAIN res.workload_scores
          \/ w \notin DOMAIN res.workload_metrics
          \/ w \notin DOMAIN stats
    \/ \E w \in {"random", "stream"} :
          \/ ~({"read_latency", "bandwidth", "energy_per_access"}
                  \subseteq DOMAIN res.workload_metrics[w])
          \/ ~({"read_latency", "bandwidth", "energy_per_access"}
                  \subseteq DOMAIN stats[w])
    \/ \E w \in {"random", "stream"} :
          \/ DivRaises(stats[w].read_latency, res.workload_metrics[w].read_latency)
          \/ DivRaises(res.workload_metrics[w].bandwidth, stats[w].bandwidth)
          \/ DivRaises(stats[w].energy_per_access,
                       res.workload_metrics[w].energy_per_access)

\* (a + b) / 2
Average(a, b) == Div(Add(a, b), Num(2))

\* the EvaluationResult of a valid evaluation
ValidEvaluation(res, stats) ==
    LET rm == res.workload_metrics["random"]
        sm == res.workload_metrics["stream"]
        rb == stats["random"]
        sb == stats["stream"]
    IN  [called |-> TRUE, kind |-> "return", status |-> "valid",
         combined_score |-> res.score,
         random_score |-> res.workload_scores["random"],
         stream_score |-> res.workload_scores["stream"],
         overall_score |-> res.score,
         latency_improvement |->
             Average(Div(rb.read_latency, rm.read_latency),
                     Div(sb.read_latency, sm.read_latency)),
         bandwidth_improvement |->
             Average(Div(rm.bandwidth, rb.bandwidth),
                     Div(sm.bandwidth, sb.bandwidth)),
         energy_efficiency |->
             Average(Div(rb.energy_per_access, rm.energy_per_access),
                     Div(sb.energy_per_access, sm.energy_per_access)),
         constraint_valid |-> Num(1)]

\* evaluate_config is over: its exception is caught, its invalid result and
\* its valid result are turned into the EvaluationResult
AdapterLeave ==
    /\ unit_out = Evaluating
    /\ pc = "done"
    /\ unit_out' =
          IF result.kind = "raise" THEN FailureResult("error")
          ELSE IF ~result.valid THEN FailureResult("simulation_failed")
          ELSE IF RatiosRaise(result, baseline_stats) THEN FailureResult("error")
          ELSE ValidEvaluation(result, baseline_stats)
    /\ UNCHANGED <<unit_in, chk_vars, eval_vars>>

AdapterOutcomes == EnvOutcomes \cup {EnvOutcome("exit_0", RawError)}

InitAdapter ==
    /\ InitEval
    /\ verbose
    /\ deterministic = FALSE
    /\ chk_params = BaselineParams
    /\ chk_base = AsFunction(Get(baseline_config, "timing"))
    /\ chk_out = NoOut
    /\ unit_in \in AdapterFacts
    /\ unit_out = NotRun

NextAdapter ==
    \/ AdapterEnter
    \/ AdapterCall
    \/ \E env \in AdapterOutcomes : BaselineStep(env)
    \/ \E write_ok \in BOOLEAN : WriteConfig(write_ok)
    \/ \E env \in AdapterOutcomes : CandidateStep(env)
    \/ Finish
    \/ AdapterLeave

SpecAdapter == InitAdapter /\ [][NextAdapter]_vars

(***************************************************************************)
(* SpecPaths: two evaluator instances, each constructed on its own output  *)
(* directory and running one evaluate_config call on one workload, their   *)
(* filesystem accesses interleaved.  A path is the sequence of its         *)
(* components, the text split at "/"; an absolute path starts with "".     *)
(***************************************************************************)
Cwd == <<"home", "u">>

IsAbs(path) == path # <<>> /\ path[1] = ""

\* os.path.join of two paths: an absolute second path replaces the first
join(a, b) == IF IsAbs(b) THEN b ELSE a \o b

\* os.path.normpath of an absolute path: "" and "." are dropped, ".." removes
\* the component before it and stays at the root
RECURSIVE normpath(_, _)
normpath(parts, acc) ==
    IF parts = <<>> THEN acc
    ELSE IF Head(parts) \in {"", "."} THEN normpath(Tail(parts), acc)
    ELSE IF Head(parts) = ".."
      THEN normpath(Tail(parts),
                    IF acc = <<>> THEN acc ELSE SubSeq(acc, 1, Len(acc) - 1))
    ELSE normpath(Tail(parts), Append(acc, Head(parts)))

\* os.path.abspath, and the path a relative name given to open() stands for
abspath(path) == normpath(join(Cwd, path), <<>>)

\* f"{prefix}{workload}" as a path: the prefix joins the first component
Prefixed(prefix, workload) == <<prefix \o Head(workload)>> \o Tail(workload)

\* output_path of a baseline run and of a candidate run
baseline_output_path(output_dir, workload) ==
    abspath(join(output_dir, Prefixed("baseline_", workload)))

eval_output_path(output_dir, hash, workload) ==
    abspath(join(output_dir, Prefixed("eval_" \o hash \o "_", workload)))

\* config_<hash>.ini under output_dir, as open() resolves it
config_path(output_dir, hash) ==
    abspath(join(output_dir, <<"config_" \o hash \o ".ini">>))

json_file(output_path) == join(output_path, <<"dramsim3.json">>)

OutputDirs == {<<"runs", "a">>, <<"runs", "b">>, <<".", "eval_outputs">>}

\* workloads as paths; the last three are trace files that exist
PathTraceFiles ==
    {<<"trace.txt">>, <<"..", "..", "..", "traces", "t.trc">>,
     <<"", "data", "t.trc">>}

PathWorkloads == {<<"random">>, <<"stream">>, <<"nosuch">>} \cup PathTraceFiles

\* a command is built for the workload
CommandBuilt(workload) ==
    workload \in {<<"random">>, <<"stream">>} \/ workload \in PathTraceFiles

\* abs(hash(str(timing_params))) in decimal, of two parameter sets
ParamHashes == {"17", "42"}

Instances == {1, 2}

Access(op, path) == [op |-> op, path |-> path]

InitPaths ==
    /\ IdleEvaluator
    /\ \E d1, d2 \in OutputDirs, w1, w2 \in PathWorkloads, h \in ParamHashes :
          /\ abspath(d1) # abspath(d2)
          /\ unit_in = [output_dir |-> <<d1, d2>>, workload |-> <<w1, w2>>,
                        hash |-> <<"17", h>>]
    /\ unit_out = [at |-> <<"new", "new">>, accessed |-> <<{}, {}>>]

\* instance i moves on and has made the accesses
Moves(i, to, accesses) ==
    unit_out' = [at |-> [unit_out.at EXCEPT ![i] = to],
                 accessed |-> [unit_out.accessed EXCEPT ![i] = @ \cup accesses]]

\* __init__: os.makedirs(output_dir)
Construct(i) ==
    /\ unit_out.at[i] = "new"
    /\ Moves(i, "baseline", {Access("makedirs", abspath(unit_in.output_dir[i]))})
    /\ UNCHANGED <<unit_in, chk_vars, eval_vars>>

\* what _run_simulation touches: the run directory is made before the
\* workload is looked at, the file is looked for after exit code 0
RunAccesses(output_path, workload, exit_ok) ==
    {Access("makedirs", output_path)} \cup
    (IF CommandBuilt(workload) /\ exit_ok
       THEN {Access("read", json_file(output_path))} ELSE {})

\* the baseline run of the call
RunBaseline(i, exit_ok) ==
    /\ unit_out.at[i] = "baseline"
    /\ Moves(i, IF CommandBuilt(unit_in.workload[i]) /\ exit_ok
                  THEN "write" ELSE "done",
             RunAccesses(baseline_output_path(unit_in.output_dir[i],
                                              unit_in.workload[i]),
                         unit_in.workload[i], exit_ok))
    /\ UNCHANGED <<unit_in, chk_vars, eval_vars>>

\* _write_config on config_<hash>.ini
WriteConfigFile(i) ==
    /\ unit_out.at[i] = "write"
    /\ Moves(i, "candidate",
             {Access("write", config_path(unit_in.output_dir[i],
                                          unit_in.hash[i]))})
    /\ UNCHANGED <<unit_in, chk_vars, eval_vars>>

\* the candidate run of the call
RunCandidate(i, exit_ok) ==
    /\ unit_out.at[i] = "candidate"
    /\ Moves(i, "done",
             RunAccesses(eval_output_path(unit_in.output_dir[i],
                                          unit_in.hash[i], unit_in.workload[i]),
                         unit_in.workload[i], exit_ok))
    /\ UNCHANGED <<unit_in, chk_vars, eval_vars>>

NextPaths ==
    \/ \E i \in Instances : Construct(i)
    \/ \E i \in Instances, exit_ok \in BOOLEAN : RunBaseline(i, exit_ok)
    \/ \E i \in Instances : WriteConfigFile(i)
    \/ \E i \in Instances, exit_ok \in BOOLEAN : RunCandidate(i, exit_ok)

SpecPaths == InitPaths /\ [][NextPaths]_vars

(***************************************************************************)
(* What the specification says of the validator, stated without the code:  *)
(* the value a constraint is checked on, and the three conditions.         *)
(***************************************************************************)
StatedValue(params, timing, name) ==
    IF name \in DOMAIN params THEN params[name]
    ELSE IF name \in DOMAIN timing THEN ParseInt(timing[name])
    ELSE 0

StatedOrdering(params, timing) ==
    StatedValue(params, timing, "tRAS") >=
        StatedValue(params, timing, "tRCD") + StatedValue(params, timing, "CL")

StatedPositive(params) == \A k \in DOMAIN params : params[k] > 0

StatedInBounds(params) ==
    /\ \A k \in DOMAIN params \cap {"CL", "tRCD", "tRP"} :
          10 <= params[k] /\ params[k] <= 30
    /\ "tRAS" \in DOMAIN params => 25 <= params["tRAS"] /\ params["tRAS"] <= 80

StatedValid(params, timing) ==
    StatedOrdering(params, timing) /\ StatedPositive(params) /\ StatedInBounds(params)

\* how often a piece occurs in a message
Occurrences(msg, piece) == Cardinality({i \in DOMAIN msg : msg[i] = piece})

\* msg holds every piece of `pieces`, as often as `pieces` does
HoldsAll(msg, pieces) ==
    \A i \in DOMAIN pieces :
        Occurrences(msg, pieces[i]) >= Occurrences(pieces, pieces[i])

(***************************************************************************)
(* C1: _check_timing_constraints returns valid exactly when tRAS >= tRCD + *)
(* CL (a parameter absent from the set taken from the base timing          *)
(* section), every value present is > 0, and every present CL, tRCD, tRP   *)
(* is in [10,30] and a present tRAS in [25,80]; {20,20,20,40} is valid and *)
(* {20,20,20,39} is not.                                                   *)
(***************************************************************************)
C1_ValidIffConstraints ==
    chk_out.called =>
        /\ chk_out.valid <=> StatedValid(chk_params, chk_base)
        /\ chk_params = Params(20, 20, 20, 40) => chk_out.valid
        /\ chk_params = Params(20, 20, 20, 39) => ~chk_out.valid

C1_Witness ==
    /\ chk_out.called
    /\ chk_params = Params(20, 20, 20, 40)
    /\ chk_out.valid

(***************************************************************************)
(* C10: for every parameter set with tRAS < tRCD + CL (absent parameters   *)
(* from the base configuration) validation is invalid and the reason holds *)
(* the values of tRAS, tRCD and CL that were compared and the sum          *)
(* tRCD + CL.                                                              *)
(***************************************************************************)
C10_OrderingReasonHasValues ==
    LET tRAS == StatedValue(chk_params, chk_base, "tRAS")
        tRCD == StatedValue(chk_params, chk_base, "tRCD")
        CL   == StatedValue(chk_params, chk_base, "CL")
    IN  chk_out.called /\ tRAS < tRCD + CL =>
            /\ ~chk_out.valid
            /\ HoldsAll(chk_out.reason,
                        <<IntStr(tRAS), IntStr(tRCD), IntStr(CL), IntStr(tRCD + CL)>>)

C10_Witness ==
    /\ chk_out.called
    /\ chk_params = [tRAS |-> 39]
    /\ Text(chk_out.reason) =
          "Constraint violated: tRAS (39) must be >= tRCD (22) + CL (22) = 44"

(***************************************************************************)
(* The current evaluate_config call, as the claims speak of it.            *)
(***************************************************************************)
InCall == pc # "idle"

BaseTiming == AsFunction(Get(baseline_config, "timing"))

\* the parameters of the call satisfy the stated constraints
CallValid == StatedValid(call.timing_params, BaseTiming)

Requested == {call.workloads[i] : i \in DOMAIN call.workloads}

BaselineRuns  == SelectSeq(events, LAMBDA e : e.phase = "baseline")
CandidateRuns == SelectSeq(events, LAMBDA e : e.phase = "candidate")

Last(seq) == seq[Len(seq)]

IsInvalidResult(r) ==
    /\ r.kind = "return"
    /\ r.valid = FALSE
    /\ r.score = NegInf
    /\ Text(r.error_msg) # ""

\* a score that is a number: not an infinity, not NaN
IsFiniteScore(x) == x.k \in {"fin", "root"}

(***************************************************************************)
(* C2: for every parameter set that fails validation evaluate_config       *)
(* returns score -infinity, valid false, a non-empty error_msg and empty   *)
(* per-workload maps, without any simulation (baseline or candidate),      *)
(* without writing a config file and with baseline_stats unchanged,        *)
(* whether or not the baseline has been established.                       *)
(***************************************************************************)
C2_InvalidParamsNoSimulation ==
    InCall /\ ~CallValid =>
        /\ pc = "done"
        /\ IsInvalidResult(result)
        /\ result.timing_params = call.timing_params
        /\ result.workload_scores = EmptyMap
        /\ result.workload_metrics = EmptyMap
        /\ events = <<>>
        /\ files = EmptyMap
        /\ baseline_stats = stats_at_call

C2_Witness ==
    /\ pc = "done"
    /\ call.timing_params = Params(31, 28, 28, 70)
    /\ baseline_stats # EmptyMap
    /\ IsInvalidResult(result)
    /\ events = <<>>

(***************************************************************************)
(* C3: evaluate_config never raises for an expected external failure       *)
(* (simulator missing, timeout, non-zero exit, output JSON missing or      *)
(* malformed, filesystem failure creating the run directory or writing the *)
(* config file): it returns valid false, score -infinity and a non-empty   *)
(* error_msg.                                                              *)
(***************************************************************************)
C3_FailuresAreReturned ==
    pc = "done" /\ (\E i \in DOMAIN events : events[i].outcome # "ok") =>
        IsInvalidResult(result)

(***************************************************************************)
(* C4: baseline_stats is empty until the first call whose parameters pass  *)
(* validation; an entry that a call finds in baseline_stats is not         *)
(* overwritten, removed or recomputed by it; no baseline simulation is     *)
(* started while baseline_stats is non-empty.  The last part holds of the  *)
(* calls that found baseline_stats non-empty, not of the baseline loop of  *)
(* the call that fills it.                                                 *)
(***************************************************************************)
C4_EmptyUntilValid == ~ever_valid => baseline_stats = EmptyMap

C4_EntriesKept ==
    \A w \in DOMAIN stats_at_call :
        w \in DOMAIN baseline_stats /\ baseline_stats[w] = stats_at_call[w]

\* as claimed
C4_BaselineOnlyWhileEmpty ==
    /\ C4_EmptyUntilValid
    /\ C4_EntriesKept
    /\ \A i \in DOMAIN events :
          events[i].phase = "baseline" /\ events[i].launched =>
              events[i].stats_empty

\* as amended
C4_BaselineOnlyIfFoundEmpty ==
    /\ C4_EmptyUntilValid
    /\ C4_EntriesKept
    /\ \A i \in DOMAIN events :
          events[i].phase = "baseline" => stats_at_call = EmptyMap

C4_Witness ==
    /\ pc = "done"
    /\ stats_at_call # EmptyMap
    /\ CandidateRuns # <<>>
    /\ result.kind = "return"
    /\ result.valid

(***************************************************************************)
(* C5: a call in which a baseline simulation fails returns invalid with    *)
(* the baseline-specific prefix, empty maps and no candidate simulation;   *)
(* and every later call with valid parameters re-attempts the baseline and *)
(* returns invalid until the baseline simulations of all requested         *)
(* workloads have succeeded, whichever workload was the one that failed.   *)
(***************************************************************************)
C5_BaselineFailureDegrades ==
    /\ pc = "done" /\ BaselineRuns # <<>> /\ Last(BaselineRuns).outcome = "error" =>
          /\ IsInvalidResult(result)
          /\ Head(result.error_msg) = "Baseline simulation failed: "
          /\ result.workload_scores = EmptyMap
          /\ result.workload_metrics = EmptyMap
          /\ CandidateRuns = <<>>
    /\ /\ pending_at_call /\ CallValid /\ call.workloads # <<>>
       /\ pc \in {"write", "candidate", "aggregate", "done"}
       => BaselineRuns # <<>>
    /\ /\ pc = "done" /\ pending_at_call /\ pending /\ CallValid
       /\ result.kind = "return"
       => ~result.valid

(***************************************************************************)
(* C6: when the candidate simulation of the k-th workload fails,           *)
(* evaluate_config stops (no simulation for a later workload) and returns  *)
(* valid false, score -infinity, that workload's error, and per-workload   *)
(* maps holding exactly the workloads before k with their scores and       *)
(* metrics.  A run fails when _run_simulation returns an error or when it  *)
(* cannot create its output directory.                                     *)
(***************************************************************************)
C6_PartialResultsOnFailure ==
    pc = "done" /\ CandidateRuns # <<>> /\ Last(CandidateRuns).outcome # "ok" =>
        LET k == Len(CandidateRuns)
            before == {call.workloads[j] : j \in 1 .. k - 1}
        IN  /\ Last(events) = Last(CandidateRuns)
            /\ \A j \in 1 .. k : CandidateRuns[j].workload = call.workloads[j]
            /\ \A j \in 1 .. k - 1 : CandidateRuns[j].outcome = "ok"
            /\ IsInvalidResult(result)
            /\ Last(CandidateRuns).outcome = "error" =>
                  result.error_msg =
                      <<"Simulation failed: ">> \o Last(CandidateRuns).error
            /\ DOMAIN result.workload_scores = before
            /\ DOMAIN result.workload_metrics = before
            /\ \A w \in before :
                  result.workload_scores[w] =
                      _compute_score(result.workload_metrics[w], baseline_stats[w])

(***************************************************************************)
(* C7: when validation passes and the baseline and every candidate         *)
(* simulation succeed, evaluate_config returns valid true, error_msg "",   *)
(* timing_params equal to the input and per-workload maps keyed by exactly *)
(* the requested workloads, each score being the score of its metrics      *)
(* against baseline_stats and the overall score their aggregate.           *)
(***************************************************************************)
C7_SuccessIsValid ==
    /\ pc = "done" /\ CallValid /\ call.workloads # <<>>
    /\ \A i \in DOMAIN events : events[i].outcome = "ok"
    => /\ result.kind = "return"
       /\ result.valid
       /\ result.error_msg = <<>>
       /\ result.timing_params = call.timing_params
       /\ DOMAIN result.workload_scores = Requested
       /\ DOMAIN result.workload_metrics = Requested
       /\ \A w \in Requested :
             result.workload_scores[w] =
                 _compute_score(result.workload_metrics[w], baseline_stats[w])
       /\ result.score = Aggregate(Values(result.workload_scores))

(***************************************************************************)
(* C8: every result evaluate_config returns has valid = false iff score =  *)
(* -infinity iff error_msg is non-empty, and a valid result has a finite   *)
(* score and an empty error_msg; _check_timing_constraints returns an      *)
(* empty reason iff it returns valid.                                      *)
(***************************************************************************)
C8_ResultConsistent ==
    /\ pc = "done" /\ result.kind = "return" =>
          /\ ~result.valid <=> result.score = NegInf
          /\ ~result.valid <=> Text(result.error_msg) # ""
          /\ result.valid => IsFiniteScore(result.score)
    /\ chk_out.called => (Text(chk_out.reason) = "" <=> chk_out.valid)

(***************************************************************************)
(* C9: on an evaluator that has no baseline yet, base timing CL=22,        *)
(* tRCD=22, tRP=22, tRAS=52, and a deterministic simulator,                *)
(* evaluate_config of these four values writes a candidate configuration   *)
(* the simulator reads as it reads the base one; and when every simulation *)
(* of the call succeeds, the result is valid, the candidate metrics are    *)
(* the baseline metrics and the score is within 1% of 1.  The score part   *)
(* holds when the baseline read latency, bandwidth and energy per access   *)
(* of every requested workload are finite and at least 1, not for every    *)
(* deterministic simulator.                                                *)
(***************************************************************************)
RECURSIVE Pow(_, _)
Pow(b, e) == IF e = 0 THEN 1 ELSE b * Pow(b, e - 1)

\* |x - 1.0| < 0.01, for a score or the r-th root of one
Within1Percent(x) ==
    /\ IsFiniteScore(x)
    /\ LET r == IF x.k = "root" THEN x.r ELSE 1
       IN  /\ Pow(99, r) * x.d < Pow(100, r) * x.n
           /\ Pow(100, r) * x.n < Pow(101, r) * x.d

\* the floors of the scorer are not engaged
AboveFloor(m) ==
    \A f \in {"read_latency", "bandwidth", "energy_per_access"} :
        IsFinite(m[f]) /\ ~Gt(Num(1), m[f])

CalibrationCall ==
    /\ deterministic
    /\ stats_at_call = EmptyMap
    /\ BaseTiming = [CL |-> "22", tRCD |-> "22", tRP |-> "22", tRAS |-> "52",
                     tCK |-> "0.63", tRFC |-> "560"]
    /\ call.timing_params = BaselineParams

CalibrationRan ==
    /\ CalibrationCall
    /\ pc = "done"
    /\ call.workloads # <<>>
    /\ \A i \in DOMAIN events : events[i].outcome = "ok"

CandidateConfigEquivalent ==
    CalibrationCall /\ ConfigPath(call.timing_params) \in DOMAIN files =>
        SimInput(files[ConfigPath(call.timing_params)]) = SimInput(base_file)

CalibrationHolds ==
    /\ result.kind = "return"
    /\ result.valid
    /\ \A w \in Requested : result.workload_metrics[w] = baseline_stats[w]
    /\ Within1Percent(result.score)

\* as claimed, of the calls in which every simulation succeeds and a valid
\* result with a finite score is returned
C9_CalibrationScoreIsOne ==
    /\ CandidateConfigEquivalent
    /\ /\ CalibrationRan
       /\ result.kind = "return" /\ result.valid /\ IsFiniteScore(result.score)
       => CalibrationHolds

\* as amended
C9_CalibrationAboveFloor ==
    /\ CandidateConfigEquivalent
    /\ CalibrationRan /\ (\A w \in Requested : AboveFloor(baseline_stats[w]))
          => CalibrationHolds

C9_Witness ==
    /\ CalibrationRan
    /\ call.workloads = <<"random", "stream">>
    /\ baseline_stats["random"] # baseline_stats["stream"]
    /\ result.kind = "return"
    /\ result.valid
    /\ Within1Percent(result.score)

(***************************************************************************)
(* C11: _compute_score(m, m) is exactly 1.0 for every metric record m with *)
(* read latency, bandwidth and energy per access at least 1, and in        *)
(* general the score is 0.4 * (baseline latency / max(latency, 1)) + 0.4 * *)
(* (bandwidth / max(baseline bandwidth, 1)) + 0.2 * (baseline energy per   *)
(* access / max(energy per access, 1)).  The first part holds of the       *)
(* records whose three values are finite: infinity / infinity is NaN.      *)
(***************************************************************************)
\* max(x, 1) as the number it denotes
FlooredAtOne(x) == IF Gt(Num(1), x) THEN Num(1) ELSE x

StatedScore(m, b) ==
    Add(Add(Mul(Fin(4, 10), Div(b.read_latency, FlooredAtOne(m.read_latency))),
            Mul(Fin(4, 10), Div(m.bandwidth, FlooredAtOne(b.bandwidth)))),
        Mul(Fin(2, 10), Div(b.energy_per_access,
                            FlooredAtOne(m.energy_per_access))))

AtLeastOne(x) == x = PosInf \/ (IsFinite(x) /\ ~Gt(Num(1), x))

ScoredAgainstItself ==
    /\ unit_out.called
    /\ unit_in.metrics = unit_in.baseline_metrics

ScoreIsStated ==
    unit_out.called /\ unit_in.metrics # ErrorMetrics =>
        unit_out.score = StatedScore(unit_in.metrics, unit_in.baseline_metrics)

\* as claimed
C11_SelfScoreIsOne ==
    /\ ScoreIsStated
    /\ /\ ScoredAgainstItself
       /\ \A f \in ScoredFields : AtLeastOne(unit_in.metrics[f])
       => unit_out.score = Num(1)

\* as amended
C11_FiniteSelfScoreIsOne ==
    /\ ScoreIsStated
    /\ /\ ScoredAgainstItself
       /\ \A f \in ScoredFields :
             IsFinite(unit_in.metrics[f]) /\ AtLeastOne(unit_in.metrics[f])
       => unit_out.score = Num(1)

C11_Witness ==
    /\ ScoredAgainstItself
    /\ unit_in.metrics = [f \in ScoredFields |-> Num(3)]
    /\ unit_out.score = Num(1)

(***************************************************************************)
(* C12: the overall score is the geometric mean of the scores floored at   *)
(* 0.01: its power to the number of scores is the product of the floored   *)
(* scores; identical scores s >= 0.01 aggregate to s; a score below 0.01   *)
(* (0, negative, -infinity) counts as 0.01; aggregate([1.0, 0.0001]) <     *)
(* aggregate([0.5, 0.5]).  Numbers are the reals the floats stand for.     *)
(***************************************************************************)
\* the positive number x denotes, as the r-th root of a fraction
RootIndex(x) == IF x.k = "root" THEN x.r ELSE 1

\* x = y, for positive numbers kept as roots
SameNumber(x, y) ==
    IF IsFiniteScore(x) /\ IsFiniteScore(y)
      THEN Pow(x.n, RootIndex(y)) * Pow(y.d, RootIndex(x))
             = Pow(y.n, RootIndex(x)) * Pow(x.d, RootIndex(y))
      ELSE x = y

\* x < y, for positive numbers kept as roots
LessNumber(x, y) ==
    /\ IsFiniteScore(x) /\ IsFiniteScore(y)
    /\ Pow(x.n, RootIndex(y)) * Pow(y.d, RootIndex(x))
         < Pow(y.n, RootIndex(x)) * Pow(x.d, RootIndex(y))

BelowFloor(x) == x = NegInf \/ (IsFinite(x) /\ 100 * x.n < x.d)

AtFloor(scores) ==
    [i \in DOMAIN scores |->
        IF BelowFloor(scores[i]) THEN Fin(1, 100) ELSE scores[i]]

Identical(scores) == \A i \in DOMAIN scores : scores[i] = scores[1]

Count(raw, field) == IF field \in DOMAIN raw THEN raw[field] ELSE Num(0)

Accesses(raw) == Add(Count(raw, "num_read_cmds"), Count(raw, "num_write_cmds"))

Hits(raw) ==
    Add(Count(raw, "num_read_row_hits"), Count(raw, "num_write_row_hits"))

\* total_energy, +infinity when not reported
Energy(raw) ==
    IF "total_energy" \in DOMAIN raw THEN raw["total_energy"] ELSE PosInf

C13_DerivedMetrics ==
    unit_out.called =>
        LET raw == unit_in.raw_stats
        IN  /\ IsZero(Accesses(raw)) =>
                  /\ unit_out.metrics.row_hit_rate = Num(0)
                  /\ unit_out.metrics.energy_per_access = PosInf
            /\ Gt(Accesses(raw), Num(0)) =>
                  /\ unit_out.metrics.row_hit_rate = Div(Hits(raw), Accesses(raw))
                  /\ unit_out.metrics.energy_per_access =
                        Div(Energy(raw), Accesses(raw))

C13_Witness ==
    /\ unit_out.called
    /\ unit_in.raw_stats = [num_read_cmds |-> Num(0), num_write_cmds |-> Num(0),
                            total_energy |-> Num(123)]
    /\ unit_out.metrics.row_hit_rate = Num(0)
    /\ unit_out.metrics.energy_per_access = PosInf

(***************************************************************************)
(* C14: for every baseline record and every raw record that reports a      *)
(* finite non-negative average_read_latency, average_bandwidth or          *)
(* total_energy, the candidate that differs only in omitting that field    *)
(* scores less than or equal to the reporting one.                         *)
(***************************************************************************)
\* a <= b; every comparison with NaN is false
LessEq(a, b) == ~IsNaN(a) /\ ~IsNaN(b) /\ ~Gt(a, b)

Without(raw, field) == [f \in DOMAIN raw \ {field} |-> raw[f]]

ScoreWithout(field) ==
    _compute_score(_extract_metrics(Without(unit_in.raw_stats, field)),
                   unit_out.baseline_metrics)

C14_UnreportedNeverWins ==
    unit_out.called =>
        \A field \in {"average_read_latency", "average_bandwidth", "total_energy"} :
            /\ field \in DOMAIN unit_in.raw_stats
            /\ IsFinite(unit_in.raw_stats[field])
            /\ ~Gt(Num(0), unit_in.raw_stats[field])
            => LessEq(ScoreWithout(field), unit_out.score)

\* the same, for baselines whose read_latency and energy_per_access are
\* finite
FiniteBaseline ==
    /\ IsFinite(unit_out.baseline_metrics.read_latency)
    /\ IsFinite(unit_out.baseline_metrics.energy_per_access)

C14_UnreportedNeverWinsFiniteBaseline ==
    (unit_out.called /\ FiniteBaseline) =>
        \A field \in {"average_read_latency", "average_bandwidth", "total_energy"} :
            field \in DOMAIN unit_in.raw_stats
            => LessEq(ScoreWithout(field), unit_out.score)

C14_Witness ==
    /\ unit_out.called
    /\ FiniteBaseline
    /\ \A field \in {"average_read_latency", "average_bandwidth", "total_energy"} :
          /\ field \in DOMAIN unit_in.raw_stats
          /\ Gt(unit_out.score, ScoreWithout(field))

(***************************************************************************)
(* C15: for every raw field mapping with non-negative counts the           *)
(* row_hit_rate of _extract_metrics lies in [0, 1], also when a hit        *)
(* counter exceeds its command counter or the command counter is absent.   *)
(***************************************************************************)
C15_RowHitRateIsFraction ==
    unit_out.called =>
        /\ LessEq(Num(0), unit_out.metrics.row_hit_rate)
        /\ LessEq(unit_out.metrics.row_hit_rate, Num(1))

(***************************************************************************)
(* C16: round trip: for every configuration text (sections, key = value    *)
(* lines, comments, blank lines, empty values, values containing "=",      *)
(* repeated section headers and repeated keys) parsing it, writing the     *)
(* result with _write_config and parsing that output again yields a        *)
(* mapping equal section by section and key by key to the first parse.     *)
(***************************************************************************)
SameMapping(c1, c2) ==
    /\ Keys(c1) = Keys(c2)
    /\ \A section \in Keys(c1) :
          AsFunction(Get(c1, section)) = AsFunction(Get(c2, section))

C16_RoundTrip ==
    unit_out.called => SameMapping(unit_out.again, unit_out.config)

\* a repeated key whose last value contains "=", written and read back
C16_Witness ==
    /\ unit_out.called
    /\ unit_in.text = << <<"[", "a", "]">>, <<"a", "=", "a">>,
                          <<"a", "=", "=">> >>
    /\ unit_out.config = << <<"a", << <<"a", "=">> >> >> >>
    /\ unit_out.written = << <<"[", "a", "]">>, <<"a", " ", "=", " ", "=">>,
                             <<>> >>
    /\ unit_out.again = unit_out.config

(***************************************************************************)
(* C17: _modify_timing_params(base, overrides) returns a new configuration *)
(* with the sections and keys of base and the same value everywhere,       *)
(* except that each key of overrides that exists in base's timing section  *)
(* has the decimal string of the override; override keys absent from the   *)
(* timing section add nothing and change nothing; the base configuration   *)
(* and the caller's parameter mapping are left unchanged.                  *)
(***************************************************************************)
Overrides == unit_in.heap[unit_in.timing_params]

BaseConfig == Deref(unit_in.heap, unit_in.base_config)

OverriddenValue(section, key, value) ==
    IF section = "timing" /\ key \in DOMAIN Overrides
      THEN IntStr(Overrides[key])
      ELSE value

\* the returned configuration is base with the overrides applied
OverridesApplied ==
    LET new == Deref(unit_out.outcome.heap, unit_out.outcome.new_config)
    IN  /\ Keys(new) = Keys(BaseConfig)
        /\ \A section \in Keys(BaseConfig) :
              LET old_params == AsFunction(Get(BaseConfig, section))
                  new_params == AsFunction(Get(new, section))
              IN  /\ DOMAIN new_params = DOMAIN old_params
                  /\ \A key \in DOMAIN old_params :
                        new_params[key] =
                            OverriddenValue(section, key, old_params[key])

\* every object that existed before the call is as it was
OldObjectsUnchanged ==
    \A id \in DOMAIN unit_in.heap : unit_out.outcome.heap[id] = unit_in.heap[id]

\* the returned configuration shares no dict with the objects of the caller
ReturnsNewObjects ==
    LET new_config == unit_out.outcome.new_config
        heap == unit_out.outcome.heap
    IN  /\ new_config \notin DOMAIN unit_in.heap
        /\ \A i \in DOMAIN heap[new_config] :
              heap[new_config][i][2] \notin DOMAIN unit_in.heap

C17_ModifyFrame ==
    unit_out.called =>
        /\ unit_out.outcome.kind = "return"
        /\ OverridesApplied
        /\ ReturnsNewObjects
        /\ OldObjectsUnchanged

\* the same for a base that has a timing section
C17_ModifyFrameWithTiming ==
    (unit_out.called /\ Has(BaseConfig, "timing")) =>
        /\ unit_out.outcome.kind = "return"
        /\ OverridesApplied
        /\ ReturnsNewObjects
        /\ OldObjectsUnchanged

C17_WitnessOverridden ==
    /\ unit_out.called
    /\ BaseConfig = << <<"system", << <<"CL", "22">> >> >>,
                       <<"timing", << <<"CL", "22">>, <<"tRCD", "22">> >> >> >>
    /\ Overrides = [CL |-> 105, tFAW |-> 7]
    /\ unit_out.outcome.kind = "return"
    /\ Deref(unit_out.outcome.heap, unit_out.outcome.new_config) =
          << <<"system", << <<"CL", "22">> >> >>,
             <<"timing", << <<"CL", "105">>, <<"tRCD", "22">> >> >> >>

(***************************************************************************)
(* C18: an error-carrying metric record scores -infinity, and              *)
(* evaluate_config does not return valid = true with a finite overall      *)
(* score for a call in which some per-workload score is -infinity.         *)
(***************************************************************************)
ErrorScoresNegInf ==
    \A w \in DOMAIN workload_metrics :
        "error" \in DOMAIN workload_metrics[w] => workload_scores[w] = NegInf

SomeScoreNegInf == \E w \in DOMAIN workload_scores : workload_scores[w] = NegInf

C18_ErrorRecordInvalidates ==
    /\ ErrorScoresNegInf
    /\ (pc = "done" /\ result.kind = "return" /\ SomeScoreNegInf) =>
          ~(result.valid /\ IsFiniteScore(result.score))

\* the first half alone
C18_ErrorRecordScoresNegInf == ErrorScoresNegInf

C18_WitnessErrorScored ==
    \E w \in DOMAIN workload_metrics :
        "error" \in DOMAIN workload_metrics[w] /\ workload_scores[w] = NegInf

(***************************************************************************)
(* C19: each _run_simulation call ends in exactly one outcome, decided in  *)
(* this order: workload neither random/stream nor an existing file ->      *)
(* invalid-workload failure; subprocess over 300 s -> timeout failure;     *)
(* exit code not 0 -> non-zero-exit failure carrying stdout and stderr,    *)
(* even if an output JSON exists; exit code 0 and dramsim3.json absent ->  *)
(* missing-output failure; otherwise success carrying the JSON entry "0"   *)
(* and the output directory.  A success is returned only when the exit     *)
(* code was 0 and the output file exists.                                  *)
(***************************************************************************)
\* which of the outcomes a returned dict is
OutcomeOf(r) ==
    IF ~HasError(r) THEN "success"
    ELSE IF Head(r.error) = "Unknown workload type: " THEN "invalid_workload"
    ELSE IF Head(r.error) = "Simulation timeout (>5 minutes)" THEN "timeout"
    ELSE IF Head(r.error) = "Simulation failed with return code "
      THEN "nonzero_exit"
    ELSE IF Head(r.error) = "Output JSON not found" THEN "missing_output"
    ELSE "unexpected"

StatedOutcome(workload, facts) ==
    IF workload \notin {"random", "stream"} \cup TraceFiles
      THEN "invalid_workload"
    ELSE IF facts.process = "timeout" THEN "timeout"
    ELSE IF facts.process = "exit_1" THEN "nonzero_exit"
    ELSE IF facts.process = "exit_0" /\ facts.json = "absent"
      THEN "missing_output"
    ELSE "success"

\* the outcomes of the code: the stated ones, and "unexpected" when the
\* subprocess cannot be started or the output file is not JSON
ActualOutcome(workload, facts) ==
    IF workload \notin {"random", "stream"} \cup TraceFiles
      THEN "invalid_workload"
    ELSE IF facts.process = "launch_fails" THEN "unexpected"
    ELSE IF facts.process = "timeout" THEN "timeout"
    ELSE IF facts.process = "exit_1" THEN "nonzero_exit"
    ELSE IF facts.json = "absent" THEN "missing_output"
    ELSE IF facts.json = "malformed" THEN "unexpected"
    ELSE "success"

Carries(outcome) ==
    /\ outcome = "nonzero_exit" => {"stdout", "stderr"} \subseteq unit_out.keys
    /\ outcome = "success" =>
          /\ "output_path" \in unit_out.keys
          /\ unit_out.result.raw_stats = ChannelStats(unit_in.facts)
          /\ unit_in.facts.process = "exit_0"
          /\ unit_in.facts.json # "absent"

C19_OutcomeOrder ==
    unit_out.called =>
        /\ unit_out.kind = "return"
        /\ OutcomeOf(unit_out.result) =
              StatedOutcome(unit_in.workload, unit_in.facts)
        /\ Carries(OutcomeOf(unit_out.result))

\* the same with the outcome "unexpected", for the calls that return
C19_OutcomeOrderOfReturns ==
    (unit_out.called /\ unit_out.kind = "return") =>
        /\ OutcomeOf(unit_out.result) =
              ActualOutcome(unit_in.workload, unit_in.facts)
        /\ Carries(OutcomeOf(unit_out.result))

\* a non-zero exit with an output JSON in place
C19_WitnessNonZeroExit ==
    /\ unit_out.called
    /\ unit_in.facts.process = "exit_1"
    /\ unit_in.facts.json = "channel_0"
    /\ unit_out.kind = "return"
    /\ OutcomeOf(unit_out.result) = "nonzero_exit"

(***************************************************************************)
(* C20: a workload that is neither random nor stream nor the path of an    *)
(* existing file makes _run_simulation return a failure at once, without   *)
(* launching the subprocess; through evaluate_config this yields an        *)
(* invalid result, with the baseline's error text if the baseline is not   *)
(* yet established and the candidate's otherwise.                          *)
(***************************************************************************)
NotAWorkload(workload) == workload \notin {"random", "stream"} \cup TraceFiles

\* the run of such a workload returned the failure and ended the call
FailedAsUnknown(i) ==
    /\ ~events[i].launched
    /\ events[i].outcome = "error"
    /\ events[i].error = <<"Unknown workload type: ", events[i].workload>>
    /\ i = Len(events)
    /\ pc = "done"
    /\ IsInvalidResult(result)
    /\ result.error_msg =
          (IF stats_at_call = EmptyMap
             THEN <<"Baseline simulation failed: ">>
             ELSE <<"Simulation failed: ">>) \o events[i].error

C20_UnknownWorkloadFails ==
    \A i \in DOMAIN events :
        events[i].op = "simulate" /\ NotAWorkload(events[i].workload)
        => FailedAsUnknown(i)

\* the same for the runs whose output directory could be created
C20_UnknownWorkloadFailsUnlessRaised ==
    \A i \in DOMAIN events :
        /\ events[i].op = "simulate"
        /\ NotAWorkload(events[i].workload)
        /\ events[i].outcome # "raise"
        => FailedAsUnknown(i)

\* an unknown workload met in the candidate loop, the baseline established
C20_WitnessCandidate ==
    /\ pc = "done"
    /\ stats_at_call # EmptyMap
    /\ events # <<>>
    /\ Last(events).phase = "candidate"
    /\ NotAWorkload(Last(events).workload)
    /\ FailedAsUnknown(Len(events))

(***************************************************************************)
(* C21: validation checks run in the order ordering, positivity, bounds    *)
(* and stop at the first failure: the reason is that of the earliest       *)
(* failing check.  A set that violates the ordering constraint and also a  *)
(* bound or positivity reports the ordering violation; a set with a        *)
(* non-positive value that satisfies the ordering constraint reports the   *)
(* positivity failure naming that parameter and value, not a bounds        *)
(* failure.                                                                *)
(***************************************************************************)
IsOrderingReason(reason) ==
    /\ reason # <<>>
    /\ reason[1] = "Constraint violated: tRAS ("

\* "Parameter <name> = <value> must be positive integer" for a non-positive
\* value of the set
IsPositivityReason(reason, params) ==
    /\ Len(reason) = 5
    /\ reason[1] = "Parameter "
    /\ reason[3] = " = "
    /\ reason[5] = " must be positive integer"
    /\ \E k \in DOMAIN params :
          params[k] <= 0 /\ reason[2] = k /\ reason[4] = IntStr(params[k])

IsBoundsReason(reason) ==
    /\ Len(reason) > 5
    /\ reason[1] = "Parameter "
    /\ reason[5] = " out of "

C21_EarliestFailureReported ==
    chk_out.called =>
        /\ (~StatedOrdering(chk_params, chk_base))
              => (~chk_out.valid /\ IsOrderingReason(chk_out.reason))
        /\ (StatedOrdering(chk_params, chk_base) /\ ~StatedPositive(chk_params))
              => (~chk_out.valid /\ IsPositivityReason(chk_out.reason, chk_params))
        /\ (StatedOrdering(chk_params, chk_base) /\ StatedPositive(chk_params)
               /\ ~StatedInBounds(chk_params))
              => (~chk_out.valid /\ IsBoundsReason(chk_out.reason))

\* all three checks fail and the ordering violation is the one reported
C21_WitnessAllFail ==
    /\ chk_out.called
    /\ ~StatedOrdering(chk_params, chk_base)
    /\ ~StatedPositive(chk_params)
    /\ ~StatedInBounds(chk_params)
    /\ IsOrderingReason(chk_out.reason)

(***************************************************************************)
(* C22: for a partial parameter set a missing parameter takes the base     *)
(* configuration's timing value for the ordering check only; positivity    *)
(* and range checks apply solely to the keys of the input, so a partial    *)
(* set is accepted whenever the ordering holds with the fallback values    *)
(* and its own keys pass, even if a fallback value is outside its bound;   *)
(* a parameter absent from the input and from the base timing section is   *)
(* 0 in the ordering check.                                                *)
(***************************************************************************)
Fallback(name) ==
    IF name \in DOMAIN chk_base THEN ParseInt(chk_base[name]) ELSE 0

Compared(name) ==
    IF name \in DOMAIN chk_params THEN chk_params[name] ELSE Fallback(name)

OrderingWithFallback == Compared("tRAS") >= Compared("tRCD") + Compared("CL")

Range(name) ==
    IF name \in {"CL", "tRCD", "tRP"} THEN 10 .. 30
    ELSE IF name = "tRAS" THEN 25 .. 80
    ELSE {v \in IntDomain : v > 0}

OwnKeysPass == \A k \in DOMAIN chk_params : chk_params[k] \in Range(k)

IsPartial == DOMAIN chk_params # {"CL", "tRCD", "tRP", "tRAS"}

C22_FallbackForOrderingOnly ==
    (chk_out.called /\ IsPartial) =>
        /\ chk_out.valid <=> (OrderingWithFallback /\ OwnKeysPass)
        /\ (~chk_out.valid /\ ~IsOrderingReason(chk_out.reason))
              => chk_out.reason[2] \in DOMAIN chk_params

\* accepted although the fallback CL is below its bound and a parameter of
\* the ordering check comes from the base
C22_WitnessFallbackOutOfRange ==
    /\ chk_out.called
    /\ chk_out.valid
    /\ chk_params # <<>>
    /\ "CL" \notin DOMAIN chk_params
    /\ "CL" \in DOMAIN chk_base
    /\ Fallback("CL") \notin Range("CL")

(***************************************************************************)
(* C23: the order of the steps of one evaluate_config call.                *)
(***************************************************************************)
\* a simulation of the call has started: one is in flight or one is over
SimulationStarted ==
    waiting \/ \E i \in DOMAIN events : events[i].op = "simulate"

WriteDone ==
    \E i \in DOMAIN events :
        events[i].op = "write_config" /\ events[i].outcome = "ok"

\* the phases of the recorded steps never go back: baseline, write, candidate
PhaseRank(phase) ==
    IF phase = "baseline" THEN 1 ELSE IF phase = "write" THEN 2 ELSE 3

PhasesInOrder ==
    \A i, j \in DOMAIN events :
        i < j => PhaseRank(events[i].phase) <= PhaseRank(events[j].phase)

\* the simulations of a loop so far are those of the first workloads of the
\* list, in the order of the list
InListOrder(runs) ==
    /\ Len(runs) <= Len(call.workloads)
    /\ \A j \in DOMAIN runs : runs[j].workload = call.workloads[j]

\* the simulation in flight is that of the next workload of the list
NextInList(runs) ==
    /\ Len(runs) < Len(call.workloads)
    /\ idx = Len(runs) + 1

\* C23: within one evaluate_config call no simulation starts unless the
\* parameters satisfy the constraints; baseline simulations are run only when
\* the call found baseline_stats empty and all of them are over before the
\* configuration file is written; the file is written before a candidate
\* simulation starts; each loop simulates the workloads in list order; and
\* never is more than one simulator subprocess in flight.
C23_StepsInOrder ==
    /\ (SimulationStarted => CallValid)
    /\ (BaselineRuns # <<>> \/ (waiting /\ pc = "baseline")
            => stats_at_call = EmptyMap)
    /\ PhasesInOrder
    /\ (waiting /\ pc = "baseline" => ~WriteDone /\ CandidateRuns = <<>>)
    /\ (WriteDone => ~(waiting /\ pc = "baseline"))
    /\ (CandidateRuns # <<>> \/ (waiting /\ pc = "candidate")
            => WriteDone /\ ConfigPath(call.timing_params) \in DOMAIN files)
    /\ InListOrder(BaselineRuns)
    /\ InListOrder(CandidateRuns)
    /\ (waiting /\ pc = "baseline" => NextInList(BaselineRuns))
    /\ (waiting /\ pc = "candidate" => NextInList(CandidateRuns))
    /\ (waiting => pc \in {"baseline", "candidate"})
    /\ in_flight = (IF waiting THEN 1 ELSE 0)
    /\ in_flight <= 1

\* the second candidate simulation of a call is in flight after two baseline
\* simulations, the file and the first candidate simulation
C23_WitnessSecondCandidateInFlight ==
    /\ waiting
    /\ pc = "candidate"
    /\ in_flight = 1
    /\ Len(BaselineRuns) = 2
    /\ Len(CandidateRuns) = 1
    /\ WriteDone
    /\ call.workloads[1] # call.workloads[2]

(***************************************************************************)
(* C24: two instances on different output directories.                     *)
(***************************************************************************)
\* path lies under directory dir (or is dir)
Under(path, dir) ==
    Len(dir) <= Len(path) /\ SubSeq(path, 1, Len(dir)) = dir

OwnDirectory(i) == abspath(unit_in.output_dir[i])

PathsOf(i) == {a.path : a \in unit_out.accessed[i]}

\* C24: every path an instance makes, writes or reads lies under that
\* instance's own output directory, and no path is touched by both of two
\* instances constructed on different output directories.
C24_OwnDirectoryOnly ==
    /\ \A i \in Instances : \A path \in PathsOf(i) : Under(path, OwnDirectory(i))
    /\ PathsOf(1) \cap PathsOf(2) = {}

HasDotDot(workload) == \E k \in DOMAIN workload : workload[k] = ".."

\* what holds: an instance whose workload has no ".." component stays under
\* its own output directory, and two such instances share no path
C24_OwnDirectoryWithoutDotDot ==
    /\ \A i \in Instances :
          ~HasDotDot(unit_in.workload[i]) =>
              \A path \in PathsOf(i) : Under(path, OwnDirectory(i))
    /\ ((\A i \in Instances : ~HasDotDot(unit_in.workload[i]))
            => PathsOf(1) \cap PathsOf(2) = {})

\* both instances have read dramsim3.json in the same run directory
C24_SharedRunDirectory ==
    \E a \in unit_out.accessed[1], b \in unit_out.accessed[2] :
        a.op = "read" /\ b.op = "read" /\ a.path = b.path

(***************************************************************************)
(* C25: baseline coverage.                                                 *)
(***************************************************************************)
\* the candidate simulations of the call that came back with statistics
ScoredRuns == SelectSeq(CandidateRuns, LAMBDA e : e.outcome = "ok")

\* C25: over any sequence of calls, whenever a candidate simulation of a
\* workload has succeeded and its score is to be computed, baseline_stats
\* has an entry for that workload.
C25_BaselineCovers ==
    \A j \in DOMAIN ScoredRuns : ScoredRuns[j].workload \in DOMAIN baseline_stats

\* what holds: every workload that is scored is covered when the call itself
\* ran the baseline loop to its end
C25_BaselineCoversAfterOwnBaseline ==
    /\ stats_at_call = EmptyMap
    /\ BaselineRuns # <<>>
    => C25_BaselineCovers

(***************************************************************************)
(* C26: a call with an explicitly empty workload list.                     *)
(***************************************************************************)
\* a call with valid parameters and workloads = [] is over
EmptyListCallOver == pc = "done" /\ CallValid /\ call.workloads = <<>>

NoSimulationRun == \A i \in DOMAIN events : events[i].op # "simulate"

\* C26: a call with valid parameters and an empty workload list returns a
\* result record, runs no simulation and leaves baseline_stats as it was,
\* empty on a new instance.
C26_EmptyListReturns ==
    EmptyListCallOver =>
        /\ result.kind = "return"
        /\ NoSimulationRun
        /\ baseline_stats = stats_at_call

\* what holds: such a call runs no simulation, leaves baseline_stats alone
\* and ends with an exception, of the division by len(scores) or of open()
C26_EmptyListRaises ==
    EmptyListCallOver =>
        /\ result.kind = "raise"
        /\ result.exc \in {"ZeroDivisionError", "OSError"}
        /\ NoSimulationRun
        /\ baseline_stats = stats_at_call

(***************************************************************************)
(* C27: like-for-like comparison.                                          *)
(***************************************************************************)
ValidResultReady == pc = "done" /\ result.kind = "return" /\ result.valid

\* the baseline entries the scores of the result were computed against were
\* measured with the cycle count of the call
SameCyclesAsBaseline ==
    \A w \in DOMAIN result.workload_scores : baseline_cycles[w] = call.cycles

\* C27: in every valid result, over calls whose cycles argument varies, each
\* workload's score compares the candidate's metrics with baseline metrics
\* measured with the cycle count of the call that is scored.
C27_LikeForLike == ValidResultReady => SameCyclesAsBaseline

\* what holds: the comparison is like for like in a call that ran the
\* baseline itself
C27_LikeForLikeOwnBaseline ==
    ValidResultReady /\ stats_at_call = EmptyMap => SameCyclesAsBaseline

(***************************************************************************)
(* C28: freshness of the simulator's output.                               *)
(***************************************************************************)
RunSucceeded == unit_out.runs > 0 /\ ~HasError(unit_out.result)

\* C28: whenever _run_simulation returns success, the statistics it returns
\* were written by the subprocess of that invocation and not by an earlier
\* one, although the run directory is reused and a run may exit 0 without
\* writing the file.
C28_OutputIsFresh == RunSucceeded => unit_out.read_from = unit_out.runs

\* what holds: the statistics returned are those of the file in the run
\* directory, and they are fresh on the first invocation on a new directory
C28_OutputIsTheFile ==
    RunSucceeded =>
        /\ unit_out.file.present
        /\ unit_out.result.raw_stats = unit_out.file.raw
        /\ unit_out.read_from = unit_out.file.writer
        /\ (unit_out.runs = 1 => unit_out.read_from = 1)

(***************************************************************************)
(* C29: the three validators agree on the verdict.                         *)
(***************************************************************************)
\* C29: for every integer assignment of CL, tRCD, tRP and tRAS the validate
\* of timing_config.py, the validate of initial_program.py and the
\* evaluator's _check_timing_constraints on the full parameter set return
\* the same verdict, so what the program's validate accepts the gate accepts.
C29_ValidatorsAgree ==
    unit_out.called =>
        /\ unit_out.config.valid = unit_out.gate.valid
        /\ unit_out.program.valid = unit_out.gate.valid
        /\ (unit_out.program.valid => unit_out.gate.valid)

\* an assignment that violates ordering and positivity: all three reject,
\* the gate and timing_config.py for the ordering, initial_program.py for
\* the first non-positive parameter
C29_WitnessDifferentOrder ==
    /\ unit_out.called
    /\ ~unit_out.gate.valid /\ ~unit_out.config.valid /\ ~unit_out.program.valid
    /\ IsOrderingReason(unit_out.gate.reason)
    /\ unit_out.config.reason = unit_out.gate.reason
    /\ unit_out.program.reason[2] = " must be a positive integer, got "

(***************************************************************************)
(* C30: the OpenEvolve adapter.                                            *)
(***************************************************************************)
ProgramLoaded == unit_in.construct_ok /\ unit_in.load = "ok"

ValidatePassed == ProgramLoaded /\ initial_program_validate(unit_in.cfg).valid

EvaluationValid ==
    /\ ValidatePassed
    /\ result.kind = "return"
    /\ result.valid
    /\ ~RatiosRaise(result, baseline_stats)

\* the status the claim gives each case
ClaimedStatus ==
    IF EvaluationValid THEN "valid"
    ELSE IF ProgramLoaded /\ ~ValidatePassed THEN "invalid"
    ELSE IF ValidatePassed /\ result.kind = "return" /\ ~result.valid
      THEN "simulation_failed"
    ELSE "error"

AdapterReturnsAsClaimed ==
    /\ unit_out.kind = "return"
    /\ unit_out.status = ClaimedStatus
    /\ (EvaluationValid =>
          /\ unit_out.constraint_valid = Num(1)
          /\ unit_out.combined_score = result.score
          /\ unit_out.overall_score = result.score)
    /\ (~EvaluationValid =>
          /\ unit_out.constraint_valid = Num(0)
          /\ unit_out.combined_score = Num(0))
    /\ (~ValidatePassed => pc = "idle" /\ events = <<>>)

\* C30: evaluate(program_path) always returns a result and never raises; it
\* reports constraint_valid 1.0 and combined_score = overall_score = the
\* evaluator's score exactly when validate passed, evaluate_config returned
\* valid and the ratios could be computed, and otherwise combined_score 0.0
\* and constraint_valid 0.0 with status invalid, simulation_failed or error;
\* evaluate_config is not called when validate failed.
C30_AdapterAlwaysReturns == unit_out.called => AdapterReturnsAsClaimed

\* what holds: the same, for programs whose code does not end with an
\* exception outside Exception
C30_AdapterReturnsUnlessExit ==
    unit_out.called /\ unit_in.load # "exit" => AdapterReturnsAsClaimed

====
